---------------------------- MODULE Spec2Model ----------------------------
(***************************************************************************)
(* Epictetus: a controller that keeps the A records of a DNS provider      *)
(* (CloudFlare) equal to the external IPs of the Kubernetes nodes that are *)
(* not about to be deleted.                                                *)
(*                                                                         *)
(* The model has three parts.                                              *)
(*   - the environment: the cluster (nodes, annotated services), the       *)
(*     provider (its records), the watch stream and the faults of the two  *)
(*     APIs;                                                               *)
(*   - the scheduler job running DNSManager.perform_full_sync, one         *)
(*     provider / cluster call per step;                                   *)
(*   - the watch worker running KubernetesClient._watch_nodes and, inline, *)
(*     DNSManager._handle_node_event, one call per step.                   *)
(*                                                                         *)
(* A call to a primitive wrapped in @retry is one step: it either returns  *)
(* (some attempt succeeded) or raises (every attempt failed); an attempt   *)
(* that fails leaves the provider as it was.                               *)
(***************************************************************************)
EXTENDS Integers, Sequences, FiniteSets, TLC

(***************************************************************************)
(* Bounds of the model.                                                    *)
(***************************************************************************)
\* changes of the cluster (nodes, services) in one behaviour
MaxEnvChanges == 1
\* times a call starts or stops failing in one behaviour
MaxFaultChanges == 1
\* runs of perform_full_sync in one behaviour
MaxSweeps == 2
\* watch events waiting to be read by the watch worker
MaxQueue == 2

(***************************************************************************)
(* Values.                                                                 *)
(***************************************************************************)
NodeNames == {"n1", "n2"}
\* Python's None / "" for an external IP
NoIP == ""

\* app/config.py DELETION_TAINTS
DELETION_TAINTS == {"DeletionCandidateOfClusterAutoscaler", "ToBeDeletedByClusterAutoscaler"}
OtherTaintKey == "node.kubernetes.io/unschedulable"

Taint(k, e) == [key |-> k, effect |-> e]

\* the elements of a sequence
SeqToSet(s) == {s[i] : i \in 1..Len(s)}

RECURSIVE SetToSeq(_)
\* the elements of a finite set of records of ids, by increasing id
SetToSeq(S) ==
    IF S = {} THEN << >>
    ELSE LET m == CHOOSE x \in S : \A y \in S : x.id <= y.id
         IN <<m>> \o SetToSeq(S \ {m})

(***************************************************************************)
(* KubernetesClient._extract_node_info                                     *)
(*                                                                         *)
(* A node object of the API is a record                                    *)
(*   [name, addresses: sequence of [type, address], flannel: the value of  *)
(*    the flannel annotation or NoIP, taints: set of [key, effect],        *)
(*    ready: the status of the Ready condition].                           *)
(***************************************************************************)
RECURSIVE FirstExternalIP(_)
\* lines 90-95: the first address of type ExternalIP, else None
FirstExternalIP(addresses) ==
    IF addresses = << >> THEN NoIP
    ELSE IF Head(addresses).type = "ExternalIP" THEN Head(addresses).address
    ELSE FirstExternalIP(Tail(addresses))

\* lines 90-105: the address, else the flannel annotation
ExternalIPOf(node) ==
    LET external_ip == FirstExternalIP(node.addresses)
    IN IF external_ip = NoIP THEN node.flannel ELSE external_ip

DeletionTaintsNoClear(taints) ==
    {t \in taints : t.key \in DELETION_TAINTS}

\* lines 118-130: the taints whose key is a deletion taint, cleared unless
\* every required key is present
DeletionTaintsOf(taints) ==
    LET required_deletion_taints == DELETION_TAINTS
        deletion_taints == {t \in taints : t.key \in required_deletion_taints}
        present_deletion_taints == {t.key : t \in deletion_taints}
    IN IF Cardinality(present_deletion_taints) < Cardinality(required_deletion_taints)
       THEN {}
       ELSE deletion_taints

ExtractNodeInfo(node) ==
    [name |-> node.name,
     external_ip |-> ExternalIPOf(node),
     taints |-> node.taints,
     deletion_taints |-> DeletionTaintsOf(node.taints),
     ready |-> (node.ready = "True")]

(***************************************************************************)
(* ServiceDNSConfig.from_service_annotations                               *)
(*                                                                         *)
(* A service object is [name, dns_enabled, hostname, ttl, proxied], the    *)
(* four annotation values as strings ("" for a missing annotation).        *)
(***************************************************************************)
\* int(s) for the strings the model uses; -1 stands for ValueError
ParseInt(s) ==
    CASE s = "300" -> 300
      [] s = "120" -> 120
      [] OTHER -> -1

\* lines 60-66: None unless enabled with a hostname
ConfigWanted(svc) == svc.dns_enabled = "true" /\ svc.hostname # ""

\* line 69: int() of the ttl annotation, default '300'
TtlOf(svc) == ParseInt(IF svc.ttl = "" THEN "300" ELSE svc.ttl)

FromServiceAnnotations(svc) ==
    [service_name |-> svc.name,
     hostname |-> svc.hostname,
     ttl |-> TtlOf(svc),
     proxied |-> (svc.proxied = "true")]

RECURSIVE ConfigsOf(_)
\* KubernetesClient.get_services_with_dns_annotations, the loop
ConfigsOf(svcs) ==
    IF svcs = << >> THEN << >>
    ELSE IF ConfigWanted(Head(svcs))
         THEN <<FromServiceAnnotations(Head(svcs))>> \o ConfigsOf(Tail(svcs))
         ELSE ConfigsOf(Tail(svcs))

\* the listing raises when int() raises for a wanted service
ConfigsRaise(svcs) ==
    \E i \in 1..Len(svcs) : ConfigWanted(svcs[i]) /\ TtlOf(svcs[i]) = -1


(***************************************************************************)
(* State.                                                                  *)
(***************************************************************************)
VARIABLES
    \* the environment
    nodes,          \* the cluster: node name -> node object, for the nodes that exist
    services,       \* the cluster: the sequence of service objects
    records,        \* the provider: the set of A records [id, name, content, ttl, proxied]
    faults,         \* the calls that fail at present, after their retries
    envChanges,     \* how many changes of the cluster there were
    faultChanges,   \* how many times a call started or stopped failing
    queue,          \* the watch stream: events not yet read by the watch worker
    \* KubernetesClient
    node_cache,     \* node name -> NodeInfo
    \* DNSManager
    service_configs_cache,
    sync_reports,
    events,
    last_sync_time, \* 0 is None, else the sync_time of the sweep that set it
    \* the scheduler job: perform_full_sync
    spc,            \* where the job is
    sw,             \* its locals
    sweeps,         \* jobs started
    \* the watch worker: _watch_nodes and the callback
    wpc,
    wh,
    \* CloudFlareClient
    zones,          \* the provider: zone name -> zone id
    zones_cache,    \* zone name -> zone id, as last read
    hostname_to_zone, \* hostname -> zone id
    \* the scheduler
    skipped,        \* runs of the sync job the executor refused
    health,         \* what the last get_health_status returned
    call,           \* a provider call inside its @retry wrapper
    \* the life of the process
    watch_active,   \* KubernetesClient.watch_active
    watch_threads,  \* the threads start_watching started: where each one is
    scheduler,      \* the state of the BackgroundScheduler
    main,           \* where the main thread is
    \* history, read by the properties only
    sg,             \* of the running (or last) sweep
    hg              \* of the running (or last) callback

envVars == <<nodes, services, records, faults, envChanges, faultChanges, queue>>
mgrVars == <<node_cache, service_configs_cache, sync_reports, events, last_sync_time>>
sweepVars == <<spc, sw, sweeps>>
watchVars == <<wpc, wh>>
cfVars == <<zones, zones_cache, hostname_to_zone>>
lifeVars == <<watch_active, watch_threads, scheduler, main>>
otherVars == <<skipped, health, call, lifeVars>>
vars == <<nodes, services, records, faults, envChanges, faultChanges, queue,
          node_cache, service_configs_cache, sync_reports, events, last_sync_time,
          spc, sw, sweeps, wpc, wh, zones, zones_cache, hostname_to_zone,
          skipped, health, call, watch_active, watch_threads, scheduler, main,
          sg, hg>>

(***************************************************************************)
(* The values the environment draws from.                                  *)
(***************************************************************************)
IpOf(n) == IF n = "n1" THEN "ip1" ELSE "ip2"

\* the taint key sets a node of the running system carries: none, one of the
\* two deletion taints, both
TaintKeySets ==
    {{}, {"DeletionCandidateOfClusterAutoscaler"}, DELETION_TAINTS}

NodeObject(n, hasIP, keys) ==
    [name |-> n,
     addresses |-> IF hasIP THEN <<[type |-> "ExternalIP", address |-> IpOf(n)]>>
                   ELSE << >>,
     flannel |-> NoIP,
     taints |-> {Taint(k, "NoSchedule") : k \in keys},
     ready |-> "True"]

NodeObjects(n) == {NodeObject(n, TRUE, ks) : ks \in TaintKeySets}

Service(n, en, h, ttl) ==
    [name |-> n, dns_enabled |-> en, hostname |-> h, ttl |-> ttl, proxied |-> ""]

ServiceLists ==
    { <<Service("a", "true", "h1.example.com", "")>>,
      <<Service("a", "true", "h1.example.com", ""), Service("b", "true", "h2.acme.io", "120")>> }

Record(i, h, ip, ttl, px) ==
    [id |-> i, name |-> h, content |-> ip, ttl |-> ttl, proxied |-> px]

\* what the provider holds when the controller starts: no two records of one
\* (name, content); ip3 belongs to no node, its record was left by an earlier
\* life of the cluster
InitialRecordSets ==
    { {},
      {Record(1, "h1.example.com", "ip3", 300, FALSE)},
      {Record(1, "h1.example.com", "ip1", 300, FALSE), Record(2, "h2.acme.io", "ip1", 120, FALSE)} }

InitialClusters ==
    { << >>,
      [n \in NodeNames |-> NodeObject(n, TRUE, {})],
      [n \in NodeNames |-> NodeObject(n, TRUE, IF n = "n2" THEN DELETION_TAINTS ELSE {})] }

FaultPoints == {"list_nodes", "list_services", "cf_list", "cf_delete", "cf_create"}

WatchEvent(t, obj) == [type |-> t, object |-> obj]

\* the ADDED events a fresh watch stream starts with
InitialEvents(cluster) ==
    LET names == SetToSeq({[id |-> IF n = "n1" THEN 1 ELSE 2, n |-> n] : n \in DOMAIN cluster})
    IN [i \in 1..Len(names) |-> WatchEvent("ADDED", cluster[names[i].n])]

\* the zones of the account
InitialZones == ("example.com" :> "Z1") @@ ("acme.io" :> "Z2")

\* no HealthStatus yet; timestamp counts the calls of get_health_status
NoHealth == [status |-> "", timestamp |-> 0]

NoCall == [name |-> ""]

\* the process once create_app has returned: start_watching has started
\* one thread (scheduler.py line 51), the scheduler runs (app/__init__.py
\* line 42), and the main thread is in its loop (main.py lines 75-76)
Started ==
    /\ watch_active = TRUE
    /\ watch_threads = <<"stream">>
    /\ scheduler = "running"
    /\ main = "loop"

NoSweep ==
    [configs |-> << >>, idx |-> 0, aborted |-> FALSE,
     healthy_ips |-> {}, nodes_checked |-> 0,
     todel |-> << >>, cur |-> [records_deleted |-> 0, records_kept |-> 0, errors |-> 0],
     sync_results |-> << >>,
     missing |-> {}, ip |-> NoIP,
     total_created |-> 0, creation_errors |-> 0, creation_error_hosts |-> {}]

NoCallback ==
    [type |-> "", node |-> [name |-> "", external_ip |-> NoIP, taints |-> {},
                            deletion_taints |-> {}, ready |-> FALSE],
     configs |-> << >>, idx |-> 0, matching |-> << >>, deleted_records |-> 0,
     created_records |-> 0]

\* failed: a call of the sweep raised; interfered: the callback deleted a
\* record while the sweep ran; changed, intents_changed: the cluster, its
\* services changed while the sweep ran; posts: the create_dns_record calls
\* (hostname, ip) of the sweep; dels: the number of its delete_dns_record
\* calls; list_failed: list_node raised; withdrawn: the IPs a callback that
\* ended while the sweep ran has deleted the records of; cleanRuns: the sweeps
\* that ended without a failure since the cluster or the provider last changed
\* otherwise; cleared: the (hostname, IP) of which a handler of a Deleted
\* event that nothing failed nor interfered with has removed the records, and
\* of which no record was created since; cleared_before: those when the
\* sweep started; read_configs: the configurations the sweep has read from
\* the cluster when it started, none when the listing failed;
\* refresh_failed: the services could not be listed; failed_hosts:
\* the hostnames a call for which raised; listed: the nodes list_node
\* returned; created, deleted: the records the sweep created, deleted;
\* returned: the nodes whose last change in the cluster took their deletion
\* taints away
NoSweepHistory ==
    [failed |-> FALSE, interfered |-> FALSE, changed |-> FALSE,
     intents_changed |-> FALSE, posts |-> {}, dels |-> 0, cleanRuns |-> 0,
     list_failed |-> FALSE, withdrawn |-> {},
     refresh_failed |-> FALSE, failed_hosts |-> {}, listed |-> 0,
     created |-> 0, deleted |-> 0, cleared |-> {}, cleared_before |-> {},
     read_configs |-> << >>, returned |-> {}]

\* seen: for each node an event of which the watch worker has read, whether
\* the last such event showed it with all the deletion taints
NoCallbackHistory ==
    [failed |-> FALSE, interfered |-> FALSE, failed_hosts |-> {}, seen |-> << >>]


(***************************************************************************)
(* CloudFlareClient._get_zone_for_hostname                                 *)
(***************************************************************************)
\* the names of the model and their labels: str.split('.')
Split(name) ==
    CASE name = "h1.example.com" -> <<"h1", "example", "com">>
      [] name = "h2.acme.io" -> <<"h2", "acme", "io">>
      [] name = "api.svc.example.com" -> <<"api", "svc", "example", "com">>
      [] name = "svc.example.com" -> <<"svc", "example", "com">>
      [] name = "example.com" -> <<"example", "com">>
      [] name = "acme.io" -> <<"acme", "io">>
      [] name = "db.internal" -> <<"db", "internal">>
      [] name = "internal" -> <<"internal">>
      [] name = "com" -> <<"com">>
      [] name = "io" -> <<"io">>
      [] OTHER -> << >>

KnownNames ==
    {"h1.example.com", "h2.acme.io", "api.svc.example.com", "svc.example.com",
     "example.com", "acme.io", "db.internal", "internal", "com", "io"}

\* '.'.join(parts), for the label sequences of the names of the model
Join(parts) == CHOOSE name \in KnownNames : Split(name) = parts

\* None for a zone id
NoZone == ""

RECURSIVE ZoneOfSuffix(_, _, _)
\* lines 73-80: the zone of the first of parts[i:], parts[i+1:], ... that is
\* a key of the zone cache (i counts from 1)
ZoneOfSuffix(parts, i, cache) ==
    IF i > Len(parts) THEN NoZone
    ELSE LET domain == Join(SubSeq(parts, i, Len(parts)))
         IN IF domain \in DOMAIN cache THEN cache[domain]
            ELSE ZoneOfSuffix(parts, i + 1, cache)

\* lines 63-86: the zone id returned (NoZone for None) and the hostname
\* cache the call leaves
GetZoneForHostname(hostname, cached) ==
    IF hostname \in DOMAIN cached
    THEN [zone_id |-> cached[hostname], hostname_to_zone |-> cached]
    ELSE LET zone_id == ZoneOfSuffix(Split(hostname), 1, zones_cache)
         IN [zone_id |-> zone_id,
             hostname_to_zone |->
                IF zone_id = NoZone THEN cached ELSE (hostname :> zone_id) @@ cached]

\* the hostname cache after a call that resolves the zone of hostname
Resolved(hostname) == GetZoneForHostname(hostname, hostname_to_zone).hostname_to_zone

RECURSIVE ResolvedAll(_, _)
\* get_all_dns_records_for_hostnames: the hostname cache after the calls
ResolvedAll(hostnames, cached) ==
    IF hostnames = << >> THEN cached
    ELSE ResolvedAll(Tail(hostnames),
                     GetZoneForHostname(Head(hostnames), cached).hostname_to_zone)

\* get_dns_records lines 92-94, create_dns_record lines 142-144: ValueError
NoZoneFor(hostname) ==
    GetZoneForHostname(hostname, hostname_to_zone).zone_id = NoZone

(***************************************************************************)
(* The provider, as CloudFlareClient sees it.                              *)
(***************************************************************************)
\* get_dns_records raises: no zone, or the API call fails
ListRaises(hostname) == "cf_list" \in faults \/ NoZoneFor(hostname)

\* create_dns_record raises: no zone, or the API call fails
CreateRaises(hostname) == "cf_create" \in faults \/ NoZoneFor(hostname)

\* an id no record and no listing held by a thread carries
UsedIds ==
    {r.id : r \in records} \cup {r.id : r \in SeqToSet(sw.todel)}
        \cup {r.id : r \in SeqToSet(wh.matching)}

FreshId == CHOOSE i \in 1..(Cardinality(UsedIds) + 1) : i \notin UsedIds

GetDnsRecordsNone(hostname) == {}

\* CloudFlareClient.get_dns_records: the A records of the exact name
GetDnsRecords(hostname) == {r \in records : r.name = hostname}

\* cf.zones.dns_records.delete: the provider refuses an id it does not hold
DeleteFails(record) ==
    "cf_delete" \in faults \/ ~(\E r \in records : r.id = record.id)

AfterDelete(record) == {r \in records : r.id # record.id}

\* CloudFlareClient.create_dns_record: the record the provider adds
AfterCreate(hostname, ip_address, ttl, proxied) ==
    records \cup {Record(FreshId, hostname, ip_address, ttl, proxied)}

InvalidRecordsAll(current_records, valid_ips) == current_records

InvalidRecordsOfSeenNodes(current_records, valid_ips) ==
    {r \in current_records :
        /\ r.content \notin valid_ips
        /\ \E n \in DOMAIN node_cache : node_cache[n].external_ip = r.content}

\* sync_dns_records_for_hostname, line 274: the records to delete
InvalidRecords(current_records, valid_ips) ==
    {r \in current_records : r.content \notin valid_ips}

\* create_dns_record_from_service_config, lines 378-385: the record exists
RecordExists(existing_records, ip_address) ==
    \E r \in existing_records : r.content = ip_address

MatchingRecordsAnyIP(recs, ip_address) == recs

MatchingRecordsNone(recs, ip_address) == {}

\* delete_dns_records_by_ip, line 216
MatchingRecords(recs, ip_address) == {r \in recs : r.content = ip_address}

(***************************************************************************)
(* DNSManager._refresh_service_configs: the cache after it.  On an error   *)
(* the existing configurations are kept.                                   *)
(***************************************************************************)
RefreshFails == "list_services" \in faults \/ ConfigsRaise(services)

RefreshedConfigs ==
    IF RefreshFails THEN service_configs_cache ELSE ConfigsOf(services)

(***************************************************************************)
(* DNSManager.perform_full_sync                                            *)
(***************************************************************************)
HealthyIPsReadyOnly(all_nodes) ==
    {n.external_ip : n \in {m \in all_nodes :
        m.deletion_taints = {} /\ m.external_ip # NoIP /\ m.ready}}

\* lines 257-262
HealthyIPs(all_nodes) ==
    LET healthy_nodes == {node \in all_nodes :
                            node.deletion_taints = {} /\ node.external_ip # NoIP}
    IN {node.external_ip : node \in healthy_nodes}

MissingIPsReversed(healthy_ips, current_ips) == current_ips \ healthy_ips

\* line 308
MissingIPs(healthy_ips, current_ips) == healthy_ips \ current_ips

NextPhaseCreateFirst(phase) ==
    CASE phase = "nodes" -> "create"
      [] phase = "create" -> "sync"
      [] OTHER -> "report"

\* the order of the statements of perform_full_sync: the node listing (253),
\* the deletions (293), the creations (301-336), the report (338-384)
NextPhase(phase) ==
    CASE phase = "nodes" -> "sync"
      [] phase = "sync" -> "create"
      [] OTHER -> "report"

RECURSIVE PhaseEntry(_, _)
\* a loop over no configuration is skipped
PhaseEntry(phase, n) ==
    IF phase = "report" \/ n > 0 THEN phase ELSE PhaseEntry(NextPhase(phase), n)

\* the job's place and locals once the configuration at sw.idx is done with
\* in the loop `phase`; the creation loop and the report read
\* self.service_configs_cache anew
Advance(phase, locals) ==
    IF locals.idx < Len(locals.configs)
    THEN [pc |-> phase, sw |-> [locals EXCEPT !.idx = @ + 1]]
    ELSE LET next == PhaseEntry(NextPhase(phase), Len(service_configs_cache))
         IN [pc |-> next,
             sw |-> [locals EXCEPT !.idx = 1, !.configs = service_configs_cache]]

AfterRaiseLeavesLoop(phase, locals) == [pc |-> "report", sw |-> locals]

\* sync_dns_records_for_service_configs lines 425-435, perform_full_sync
\* lines 331-336: the except clause is inside the loop, which goes on with
\* the next configuration
AfterRaise(phase, locals) == Advance(phase, locals)

SweepBusy == spc # "idle"

\* scheduler.py lines 28-32: job_defaults max_instances; the sweep is the
\* one job that calls perform_full_sync (scheduler.py line 101)
max_instances == 1

\* the instances of the job that the executor is running
RunningInstances == IF SweepBusy THEN 1 ELSE 0

CanRunJobAlways == TRUE

\* the executor accepts a run of the job while fewer than max_instances of
\* its instances run
CanRunJob == RunningInstances < max_instances

\* the exceptions that the calls of the job and of the handler raise
Exceptions == {"ApiException", "NameError", "ValueError", "CloudFlareAPIError"}

CatchesApiExceptionOnly(exception) == exception = "ApiException"

\* except Exception (lines 386, 111, 152, 191, 224): every exception
Catches(exception) == exception \in Exceptions
CallbackBusy == wpc \in {"h_list", "h_del", "a_check", "a_post", "h_record"}

\* a call of the sweep for hostname raised
SweepFailed(hostname) ==
    [sg EXCEPT !.failed = TRUE, !.failed_hosts = @ \cup {hostname}]

\* lines 241-250: the job starts and refreshes the service configurations
SweepStart ==
    /\ scheduler = "running"
    /\ CanRunJob
    /\ sweeps < MaxSweeps
    /\ sweeps' = sweeps + 1
    /\ service_configs_cache' = RefreshedConfigs
    /\ spc' = "nodes"
    /\ sw' = NoSweep
    /\ sg' = [NoSweepHistory EXCEPT !.failed = RefreshFails,
                                    !.refresh_failed = RefreshFails,
                                    !.cleanRuns = sg.cleanRuns,
                                    !.cleared = sg.cleared,
                                    !.cleared_before = sg.cleared,
                                    !.returned = sg.returned,
                                    !.read_configs =
                                        IF RefreshFails THEN << >>
                                        ELSE ConfigsOf(services)]
    /\ UNCHANGED <<cfVars, otherVars, envVars, node_cache, sync_reports, events, last_sync_time,
                   watchVars, hg>>

\* v1.list_node: the node objects, none when the call raises
ListNodeItems == IF "list_nodes" \in faults THEN << >> ELSE nodes

SweepListNodesSwallowed == FALSE

\* get_all_nodes re-raises what list_node raised (lines 71-77)
SweepListNodesAborts == "list_nodes" \in faults

\* lines 252-262: get_all_nodes (which writes the node cache) and the
\* partition of the nodes; a failure leaves the try block
SweepListNodes ==
    /\ spc = "nodes"
    /\ IF SweepListNodesAborts
       THEN /\ spc' = "report"
            /\ sw' = [sw EXCEPT !.aborted = TRUE]
            /\ sg' = [sg EXCEPT !.failed = TRUE, !.list_failed = TRUE]
            /\ UNCHANGED node_cache
       ELSE LET listed == ListNodeItems
                all_nodes == {ExtractNodeInfo(listed[n]) : n \in DOMAIN listed}
                next == PhaseEntry(NextPhase("nodes"), Len(service_configs_cache))
            IN /\ node_cache' =
                    [n \in DOMAIN node_cache \cup DOMAIN listed |->
                        IF n \in DOMAIN listed THEN ExtractNodeInfo(listed[n])
                        ELSE node_cache[n]]
               /\ spc' = next
               /\ sw' = [sw EXCEPT !.healthy_ips = HealthyIPs(all_nodes),
                                   !.nodes_checked = Cardinality(all_nodes),
                                   !.configs = service_configs_cache,
                                   !.idx = 1]
               /\ sg' = [sg EXCEPT !.list_failed = "list_nodes" \in faults,
                                     !.listed = Cardinality(DOMAIN nodes)]
    /\ UNCHANGED <<cfVars, otherVars, envVars, service_configs_cache, sync_reports, events,
                   last_sync_time, sweeps, watchVars, hg>>

\* sync_dns_records_for_service_configs, one configuration: the listing of
\* sync_dns_records_for_hostname (line 267) and what it leaves to delete
SweepSyncList ==
    /\ spc = "sync"
    /\ LET hostname == sw.configs[sw.idx].hostname
           current_records == GetDnsRecords(hostname)
           todel == InvalidRecords(current_records, sw.healthy_ips)
           kept == Cardinality(current_records) - Cardinality(todel)
       IN IF ListRaises(hostname)
          THEN \* lines 425-435: the result of a hostname whose sync raised
               LET a == AfterRaise("sync",
                          [sw EXCEPT !.sync_results = (hostname :>
                              [success |-> FALSE, raised |-> TRUE, records_deleted |-> 0,
                               records_kept |-> 0, errors |-> 0]) @@ @])
               IN spc' = a.pc /\ sw' = a.sw /\ sg' = SweepFailed(hostname)
          ELSE IF todel = {}
          THEN LET a == Advance("sync",
                          [sw EXCEPT !.sync_results = (hostname :>
                              [success |-> TRUE, raised |-> FALSE, records_deleted |-> 0,
                               records_kept |-> kept, errors |-> 0]) @@ @])
               IN spc' = a.pc /\ sw' = a.sw /\ sg' = sg
          ELSE /\ spc' = "sync_del"
               /\ sw' = [sw EXCEPT !.todel = SetToSeq(todel),
                                   !.cur = [records_deleted |-> 0, records_kept |-> kept,
                                            errors |-> 0]]
               /\ sg' = sg
    /\ hostname_to_zone' = Resolved(sw.configs[sw.idx].hostname)
    /\ UNCHANGED <<zones, zones_cache, otherVars, envVars, mgrVars, sweeps,
                   watchVars, hg>>

\* sync_dns_records_for_hostname, lines 273-288: one delete_dns_record
SweepSyncDelete ==
    /\ spc = "sync_del"
    /\ LET record == Head(sw.todel)
           hostname == sw.configs[sw.idx].hostname
           fails == DeleteFails(record)
           cur == IF fails THEN [sw.cur EXCEPT !.errors = @ + 1]
                  ELSE [sw.cur EXCEPT !.records_deleted = @ + 1]
           rest == Tail(sw.todel)
       IN /\ records' = IF fails THEN records ELSE AfterDelete(record)
          /\ sg' = [sg EXCEPT !.failed = @ \/ fails, !.dels = @ + 1,
                                !.failed_hosts = IF fails THEN @ \cup {hostname} ELSE @,
                                !.deleted = IF fails THEN @ ELSE @ + 1]
          /\ hg' = IF ~fails /\ CallbackBusy THEN [hg EXCEPT !.interfered = TRUE] ELSE hg
          /\ IF rest # << >>
             THEN spc' = "sync_del" /\ sw' = [sw EXCEPT !.todel = rest, !.cur = cur]
             ELSE LET a == Advance("sync",
                             [sw EXCEPT !.todel = << >>, !.cur = NoSweep.cur,
                                 !.sync_results = (hostname :>
                                     [success |-> cur.errors = 0, raised |-> FALSE,
                                      records_deleted |-> cur.records_deleted,
                                      records_kept |-> cur.records_kept,
                                      errors |-> cur.errors]) @@ @])
                  IN spc' = a.pc /\ sw' = a.sw
    /\ UNCHANGED <<cfVars, otherVars, nodes, services, faults, envChanges, faultChanges, queue, mgrVars, sweeps, watchVars>>


\* lines 324-326, 332-333: a message that names the hostname is appended to
\* creation_errors
CreationError(locals, hostname) ==
    [locals EXCEPT !.creation_errors = @ + 1,
                   !.creation_error_hosts = @ \cup {hostname}]

\* lines 301-308: the listing of one configuration and the healthy IPs
\* without a record
SweepCreateList ==
    /\ spc = "create"
    /\ LET hostname == sw.configs[sw.idx].hostname
           current_ips == {record.content : record \in GetDnsRecords(hostname)}
           missing_ips == MissingIPs(sw.healthy_ips, current_ips)
       IN IF ListRaises(hostname)
          THEN \* lines 331-336
               LET a == AfterRaise("create", CreationError(sw, hostname))
               IN spc' = a.pc /\ sw' = a.sw /\ sg' = SweepFailed(hostname)
          ELSE IF missing_ips = {}
          THEN LET a == Advance("create", sw)
               IN spc' = a.pc /\ sw' = a.sw /\ sg' = sg
          ELSE /\ spc' = "create_chk"
               /\ sw' = [sw EXCEPT !.missing = missing_ips]
               /\ sg' = sg
    /\ hostname_to_zone' = Resolved(sw.configs[sw.idx].hostname)
    /\ UNCHANGED <<zones, zones_cache, otherVars, envVars, mgrVars, sweeps,
                   watchVars, hg>>

\* the job's place and locals once the creation for ip is done with
AfterIP(locals, ip) ==
    LET rest == locals.missing \ {ip}
    IN IF rest # {}
       THEN [pc |-> "create_chk", sw |-> [locals EXCEPT !.missing = rest, !.ip = NoIP]]
       ELSE Advance("create", [locals EXCEPT !.missing = {}, !.ip = NoIP])

\* lines 311-329, create_dns_record_from_service_config lines 376-385: the
\* listing that looks for the record; missing_ips is a Python set, read in
\* any order
SweepCreateCheck ==
    /\ spc = "create_chk"
    /\ \E ip \in sw.missing :
         LET hostname == sw.configs[sw.idx].hostname
         IN IF ListRaises(hostname)
            THEN LET a == AfterIP(CreationError(sw, hostname), ip)
                 IN spc' = a.pc /\ sw' = a.sw /\ sg' = SweepFailed(hostname)
            ELSE IF RecordExists(GetDnsRecords(hostname), ip)
            THEN \* the record found is returned and counted (lines 316-317)
                 LET a == AfterIP([sw EXCEPT !.total_created = @ + 1], ip)
                 IN spc' = a.pc /\ sw' = a.sw /\ sg' = sg
            ELSE spc' = "create_post" /\ sw' = [sw EXCEPT !.ip = ip] /\ sg' = sg
    /\ hostname_to_zone' = Resolved(sw.configs[sw.idx].hostname)
    /\ UNCHANGED <<zones, zones_cache, otherVars, envVars, mgrVars, sweeps,
                   watchVars, hg>>

\* create_dns_record_from_service_config lines 388-393: create_dns_record
SweepCreatePost ==
    /\ spc = "create_post"
    /\ LET config == sw.configs[sw.idx]
           fails == CreateRaises(config.hostname)
           a == AfterIP(IF fails THEN CreationError(sw, config.hostname)
                        ELSE [sw EXCEPT !.total_created = @ + 1], sw.ip)
       IN /\ records' = IF fails THEN records
                        ELSE AfterCreate(config.hostname, sw.ip, config.ttl, config.proxied)
          /\ sg' = [sg EXCEPT !.failed = @ \/ fails,
                                !.posts = @ \cup {<<config.hostname, sw.ip>>},
                                !.failed_hosts =
                                    IF fails THEN @ \cup {config.hostname} ELSE @,
                                !.created = IF fails THEN @ ELSE @ + 1,
                                !.cleared =
                                    IF fails THEN @ ELSE @ \ {<<config.hostname, sw.ip>>},
                                !.cleared_before =
                                    IF fails THEN @ ELSE @ \ {<<config.hostname, sw.ip>>}]
          /\ hostname_to_zone' = Resolved(config.hostname)
          /\ hg' = IF ~fails /\ CallbackBusy THEN [hg EXCEPT !.interfered = TRUE] ELSE hg
          /\ spc' = a.pc
          /\ sw' = a.sw
    /\ UNCHANGED <<zones, zones_cache, otherVars, nodes, services, faults, envChanges, faultChanges, queue, mgrVars, sweeps, watchVars>>

(***************************************************************************)
(* The end of perform_full_sync.                                           *)
(***************************************************************************)
\* the names perform_full_sync binds before line 354
SweepLocals ==
    {"start_time", "sync_time", "all_nodes", "nodes_with_external_ip_label",
     "nodes_with_deletion_taints", "nodes_without_external_ip", "healthy_nodes",
     "healthy_ips", "excluded_labeled_nodes", "sync_results", "total_created",
     "creation_errors", "total_deleted", "total_kept", "errors", "hostnames",
     "current_dns_records", "total_dns_records", "duration"}

\* lines 354-365 read nodes_with_all_deletion_taints: a name that is not
\* bound raises NameError, which the except clause of line 386 catches
ReportRaises == "nodes_with_all_deletion_taints" \notin SweepLocals

\* lines 338-345
RECURSIVE SumOver(_, _)
\* sum(f[x] for x in S)
SumOver(f, S) ==
    IF S = {} THEN 0
    ELSE LET x == CHOOSE y \in S : TRUE IN f[x] + SumOver(f, S \ {x})

\* lines 341-345: the creation errors, one error for a hostname whose
\* result is not a success, and the errors of its result
ReportErrors(locals) ==
    locals.creation_errors
      + SumOver([h \in DOMAIN locals.sync_results |->
                    (IF locals.sync_results[h].success THEN 0 ELSE 1)
                        + locals.sync_results[h].errors],
                DOMAIN locals.sync_results)

\* lines 341-344: the hostnames the messages of errors name, those of the
\* creation errors and of the results that are not a success
ReportErrorHostnames(locals) ==
    locals.creation_error_hosts
        \cup {h \in DOMAIN locals.sync_results : ~locals.sync_results[h].success}

\* lines 347-365; the count of Departing nodes is the name that is not bound
FullReport(locals, now) ==
    [timestamp |-> now,
     nodes_checked |-> locals.nodes_checked,
     nodes_with_deletion_taints |-> 0,
     services_checked |-> Len(service_configs_cache),
     dns_configs_found |-> Len(service_configs_cache),
     dns_records_found |->
        Cardinality({r \in records :
            \E i \in 1..Len(service_configs_cache) :
                r.name = service_configs_cache[i].hostname}),
     dns_records_created |-> locals.total_created,
     dns_records_deleted |->
        SumOver([h \in DOMAIN locals.sync_results |->
                    locals.sync_results[h].records_deleted], DOMAIN locals.sync_results),
     errors |-> ReportErrors(locals),
     error_hostnames |-> ReportErrorHostnames(locals)]

\* lines 391-402
ErrorReport(now) ==
    [timestamp |-> now, nodes_checked |-> 0, nodes_with_deletion_taints |-> 0,
     services_checked |-> 0, dns_configs_found |-> 0, dns_records_found |-> 0,
     dns_records_created |-> 0, dns_records_deleted |-> 0, errors |-> 1,
     error_hostnames |-> {}]

\* lines 371-373
ReportCap == 100

KeepAll(log, cap) == log

\* list[-cap:] when the list is longer than cap
KeepLast(log, cap) ==
    IF Len(log) > cap THEN SubSeq(log, Len(log) - cap + 1, Len(log)) ELSE log

\* datetime.now(): later than the time of every entry of the log
TimeAfter(log) == IF log = << >> THEN 1 ELSE log[Len(log)].timestamp + 1

\* the exception that ends the try block of lines 248-384
SweepException == IF sw.aborted THEN "ApiException" ELSE "NameError"

SweepReport ==
    /\ spc = "report"
    /\ hostname_to_zone' =
          IF sw.aborted THEN hostname_to_zone
          ELSE \* lines 348-349
               ResolvedAll([i \in 1..Len(service_configs_cache) |->
                               service_configs_cache[i].hostname], hostname_to_zone)
    /\ IF (sw.aborted \/ ReportRaises) /\ ~Catches(SweepException)
       THEN \* the exception leaves perform_full_sync
            /\ spc' = "raised"
            /\ UNCHANGED <<sync_reports, last_sync_time>>
       ELSE IF sw.aborted \/ ReportRaises
       THEN \* lines 386-405
            /\ sync_reports' = Append(sync_reports, ErrorReport(TimeAfter(sync_reports)))
            /\ UNCHANGED last_sync_time
            /\ spc' = "idle"
       ELSE \* lines 338-384
            /\ sync_reports' =
                 KeepLast(Append(sync_reports, FullReport(sw, TimeAfter(sync_reports))),
                          ReportCap)
            /\ last_sync_time' = TimeAfter(sync_reports)
            /\ spc' = "idle"
    /\ sw' = NoSweep
    /\ sg' = [sg EXCEPT !.cleanRuns =
                IF sg.failed \/ sg.interfered \/ sg.changed THEN 0 ELSE @ + 1]
    /\ UNCHANGED <<zones, zones_cache, otherVars, envVars, node_cache,
                   service_configs_cache, events, sweeps,
                   watchVars, hg>>


(***************************************************************************)
(* KubernetesClient._watch_nodes                                           *)
(***************************************************************************)
ShouldTriggerAnyDeletion(event_type, old_node, new_node) ==
    \/ event_type = "ADDED" /\ new_node.deletion_taints # {}
    \/ event_type = "MODIFIED" /\ new_node.deletion_taints # {}
    \/ event_type = "DELETED"

ShouldTriggerOnTaintChange(event_type, old_node, new_node) ==
    \/ event_type = "ADDED" /\ new_node.deletion_taints # {}
    \/ /\ event_type = "MODIFIED"
       /\ \E old \in old_node :
            (old.deletion_taints # {}) # (new_node.deletion_taints # {})
    \/ /\ event_type = "DELETED"
       /\ \E old \in old_node : old.deletion_taints # {}

\* _should_trigger_callback; old_node is a set, empty for None
ShouldTriggerCallback(event_type, old_node, new_node) ==
    \/ event_type = "ADDED" /\ new_node.deletion_taints # {}
    \/ /\ event_type = "MODIFIED"
       /\ old_node # {}
       /\ \E old \in old_node :
            LET old_has_all_taints == old.deletion_taints # {}
                new_has_all_taints == new_node.deletion_taints # {}
            IN ~old_has_all_taints /\ new_has_all_taints
    \/ /\ event_type = "DELETED"
       /\ old_node # {}
       /\ \E old \in old_node : old.deletion_taints # {}

CachedNode(name) == IF name \in DOMAIN node_cache THEN {node_cache[name]} ELSE {}

\* the threads that are in the for loop of line 191
StreamingThreads == {i \in 1..Len(watch_threads) : watch_threads[i] = "stream"}

\* one of them is waiting for an event, not inside a callback
AtStream == Cardinality(StreamingThreads) > (IF wpc = "idle" THEN 0 ELSE 1)

CheckStopFlagNever == TRUE

\* lines 192-193: the flag is read when an event arrives
CheckStopFlag == watch_active

\* lines 191-217: one event of the stream: the node cache is written, then
\* the callback is called or not
WatchReceive ==
    /\ wpc = "idle"
    /\ AtStream
    /\ CheckStopFlag
    /\ queue # << >>
    /\ LET event == Head(queue)
           node_info == ExtractNodeInfo(event.object)
           old_node == CachedNode(node_info.name)
       IN /\ node_cache' =
                [n \in DOMAIN node_cache \cup {node_info.name} |->
                    IF n = node_info.name THEN node_info ELSE node_cache[n]]
          /\ IF ShouldTriggerCallback(event.type, old_node, node_info)
             THEN /\ wpc' = "callback"
                  /\ wh' = [NoCallback EXCEPT !.type = event.type, !.node = node_info]
             ELSE UNCHANGED <<wpc, wh>>
          /\ hg' = [hg EXCEPT !.seen =
                      (node_info.name :> (node_info.deletion_taints # {})) @@ @]
    /\ queue' = Tail(queue)
    /\ UNCHANGED <<cfVars, otherVars, nodes, services, records, faults, envChanges, faultChanges,
                   service_configs_cache, sync_reports, events, last_sync_time,
                   sweepVars, sg>>

(***************************************************************************)
(* DNSManager._handle_node_event, called by the watch worker               *)
(***************************************************************************)
\* the callback returns at once: _handle_node_added lines 129-138 (the watch
\* passes ADDED only with deletion taints), _handle_node_modified lines
\* 172-176, _handle_node_deleted lines 210-211
ReturnsAtOnce(event_type, node_info) ==
    \/ node_info.external_ip = NoIP
    \/ event_type = "ADDED" /\ node_info.deletion_taints # {}
    \/ event_type = "MODIFIED" /\ node_info.deletion_taints = {}

\* the place of the loop over the configurations: the creations of
\* _handle_node_added, the deletions of the two other handlers
LoopOf(event_type) == IF event_type = "ADDED" THEN "a_check" ELSE "h_list"

\* _handle_node_added lines 140-145, _handle_node_modified lines 181-185,
\* _handle_node_deleted lines 213-218: the refresh of the service
\* configurations, then the loop over them
CallbackStart ==
    /\ wpc = "callback"
    /\ IF ReturnsAtOnce(wh.type, wh.node)
       THEN /\ wpc' = "idle"
            /\ wh' = NoCallback
            /\ UNCHANGED <<cfVars, otherVars, service_configs_cache, hg>>
       ELSE /\ service_configs_cache' = RefreshedConfigs
            /\ wpc' = IF Len(RefreshedConfigs) = 0 THEN "h_record" ELSE LoopOf(wh.type)
            /\ wh' = [wh EXCEPT !.configs = RefreshedConfigs, !.idx = 1]
            /\ hg' = [NoCallbackHistory EXCEPT !.failed = RefreshFails,
                                               !.seen = hg.seen]
    /\ UNCHANGED <<cfVars, otherVars, envVars, node_cache, sync_reports, events, last_sync_time,
                   sweepVars, sg>>

\* the worker's place and locals once the hostname at wh.idx is done with
NextHostname(locals) ==
    IF locals.idx < Len(locals.configs)
    THEN [pc |-> LoopOf(locals.type),
          wh |-> [locals EXCEPT !.idx = @ + 1, !.matching = << >>]]
    ELSE [pc |-> "h_record", wh |-> [locals EXCEPT !.matching = << >>]]

AfterListRaiseLeavesLoop(locals) == [pc |-> "h_record", wh |-> locals]

\* lines 152-157, 191-196, 224-229: the except clause is inside the loop,
\* which goes on with the next configuration
AfterListRaise(locals) == NextHostname(locals)

\* a call of the handler for hostname raised
CallbackFailed(hostname) ==
    [hg EXCEPT !.failed = TRUE, !.failed_hosts = @ \cup {hostname}]

\* delete_dns_records_by_ip lines 211-216: the listing; an exception is
\* caught by the loop of the handler (lines 191, 224)
\* get_dns_records lines 92-94, 128-135: what the listing raises
ListException(hostname) ==
    IF NoZoneFor(hostname) THEN "ValueError" ELSE "CloudFlareAPIError"

CallbackList ==
    /\ wpc = "h_list"
    /\ LET hostname == wh.configs[wh.idx].hostname
           matching_records ==
               MatchingRecords(GetDnsRecords(hostname), wh.node.external_ip)
       IN IF ListRaises(hostname) /\ ~Catches(ListException(hostname))
          THEN \* the exception leaves _handle_node_event and the watch loop
               wpc' = "raised" /\ wh' = wh /\ hg' = [hg EXCEPT !.failed = TRUE]
          ELSE IF ListRaises(hostname)
          THEN LET a == AfterListRaise(wh)
               IN wpc' = a.pc /\ wh' = a.wh /\ hg' = CallbackFailed(hostname)
          ELSE IF matching_records = {}
          THEN LET a == NextHostname(wh)
               IN wpc' = a.pc /\ wh' = a.wh /\ hg' = hg
          ELSE /\ wpc' = "h_del"
               /\ wh' = [wh EXCEPT !.matching = SetToSeq(matching_records)]
               /\ hg' = hg
    /\ hostname_to_zone' = Resolved(wh.configs[wh.idx].hostname)
    /\ UNCHANGED <<zones, zones_cache, otherVars, envVars, mgrVars, sweepVars, sg>>

\* delete_dns_records_by_ip lines 219-225: one delete_dns_record; a failure
\* is logged and the batch goes on
CallbackDelete ==
    /\ wpc = "h_del"
    /\ LET record == Head(wh.matching)
           fails == DeleteFails(record)
           rest == Tail(wh.matching)
           locals == IF fails THEN wh ELSE [wh EXCEPT !.deleted_records = @ + 1]
       IN /\ records' = IF fails THEN records ELSE AfterDelete(record)
          /\ hg' = IF fails THEN CallbackFailed(record.name) ELSE hg
          /\ sg' = IF fails THEN sg
                   ELSE [sg EXCEPT !.interfered = @ \/ SweepBusy, !.cleanRuns = 0]
          /\ IF rest # << >>
             THEN wpc' = "h_del" /\ wh' = [locals EXCEPT !.matching = rest]
             ELSE LET a == NextHostname(locals)
                  IN wpc' = a.pc /\ wh' = a.wh
    /\ UNCHANGED <<cfVars, otherVars, nodes, services, faults, envChanges, faultChanges, queue, mgrVars, sweepVars>>

\* _record_event lines 425-429
EventCap == 1000

MaxSkipped == 1

\* the timer fires while an instance of the job runs: the executor refuses
\* the run (max_instances) and the scheduler skips it
SweepSkipped ==
    /\ scheduler = "running"
    /\ ~CanRunJob
    /\ skipped < MaxSkipped
    /\ skipped' = skipped + 1
    /\ UNCHANGED <<cfVars, health, call, lifeVars, envVars, mgrVars, sweepVars,
                   watchVars, sg, hg>>

EventTypeOf(event_type) ==
    IF event_type = "ADDED" THEN "node_added"
    ELSE IF event_type = "MODIFIED" THEN "node_modified_all_deletion_taints"
    ELSE "node_deleted"

\* _handle_node_added lines 145-157, create_dns_record_from_service_config
\* lines 376-385: the listing that looks for the record of the node's IP
CallbackAddCheck ==
    /\ wpc = "a_check"
    /\ LET hostname == wh.configs[wh.idx].hostname
       IN IF ListRaises(hostname) /\ ~Catches(ListException(hostname))
          THEN wpc' = "raised" /\ wh' = wh /\ hg' = CallbackFailed(hostname)
          ELSE IF ListRaises(hostname)
          THEN LET a == AfterListRaise(wh)
               IN wpc' = a.pc /\ wh' = a.wh /\ hg' = CallbackFailed(hostname)
          ELSE IF RecordExists(GetDnsRecords(hostname), wh.node.external_ip)
          THEN \* the record found is returned and counted (lines 150-151)
               LET a == NextHostname([wh EXCEPT !.created_records = @ + 1])
               IN wpc' = a.pc /\ wh' = a.wh /\ hg' = hg
          ELSE wpc' = "a_post" /\ wh' = wh /\ hg' = hg
    /\ hostname_to_zone' = Resolved(wh.configs[wh.idx].hostname)
    /\ UNCHANGED <<zones, zones_cache, otherVars, envVars, mgrVars, sweepVars, sg>>

\* create_dns_record_from_service_config lines 388-393: create_dns_record
CallbackAddPost ==
    /\ wpc = "a_post"
    /\ LET config == wh.configs[wh.idx]
           fails == CreateRaises(config.hostname)
           a == NextHostname(IF fails THEN wh ELSE [wh EXCEPT !.created_records = @ + 1])
       IN /\ records' = IF fails THEN records
                        ELSE AfterCreate(config.hostname, wh.node.external_ip,
                                         config.ttl, config.proxied)
          /\ hg' = IF fails THEN CallbackFailed(config.hostname) ELSE hg
          /\ sg' = IF fails THEN sg
                   ELSE [sg EXCEPT !.interfered = @ \/ SweepBusy, !.cleanRuns = 0,
                                   !.cleared =
                                      @ \ {<<config.hostname, wh.node.external_ip>>},
                                   !.cleared_before =
                                      @ \ {<<config.hostname, wh.node.external_ip>>}]
          /\ wpc' = a.pc
          /\ wh' = a.wh
    /\ hostname_to_zone' = Resolved(wh.configs[wh.idx].hostname)
    /\ UNCHANGED <<zones, zones_cache, otherVars, nodes, services, faults, envChanges,
                   faultChanges, queue, mgrVars, sweepVars>>

\* lines 159-168, 198-206, 231-239: the event is recorded and the callback
\* returns
CallbackRecord ==
    /\ wpc = "h_record"
    /\ events' = KeepLast(Append(events,
                    [event_type |-> EventTypeOf(wh.type),
                     timestamp |-> TimeAfter(events),
                     node_name |-> wh.node.name,
                     node_ip |-> wh.node.external_ip,
                     success |-> TRUE,
                     records_deleted |-> wh.deleted_records,
                     records_created |-> wh.created_records]), EventCap)
    /\ wpc' = "idle"
    /\ wh' = NoCallback
    /\ sg' = [sg EXCEPT !.withdrawn =
                IF SweepBusy /\ ~hg.failed /\ wh.type # "ADDED"
                THEN @ \cup {wh.node.external_ip} ELSE @,
                         !.cleared =
                IF wh.type = "DELETED" /\ ~hg.failed /\ ~hg.interfered
                THEN @ \cup {<<wh.configs[i].hostname, wh.node.external_ip>> :
                                i \in 1..Len(wh.configs)}
                ELSE @]
    /\ UNCHANGED <<cfVars, otherVars, envVars, node_cache, service_configs_cache, sync_reports,
                   last_sync_time, sweepVars, hg>>


(***************************************************************************)
(* The environment.                                                        *)
(***************************************************************************)
CanChange == envChanges < MaxEnvChanges

\* a change of the cluster ends a run of sweeps between which nothing changed
Changed == [sg EXCEPT !.changed = TRUE, !.cleanRuns = 0]

EnvAddNode ==
    /\ CanChange
    /\ Len(queue) < MaxQueue
    /\ \E n \in NodeNames \ DOMAIN nodes : \E obj \in NodeObjects(n) :
         /\ nodes' = [m \in DOMAIN nodes \cup {n} |-> IF m = n THEN obj ELSE nodes[m]]
         /\ queue' = Append(queue, WatchEvent("ADDED", obj))
    /\ envChanges' = envChanges + 1
    /\ sg' = Changed
    /\ UNCHANGED <<cfVars, otherVars, services, records, faults, faultChanges, mgrVars, sweepVars,
                   watchVars, hg>>

EnvModifyNode ==
    /\ CanChange
    /\ Len(queue) < MaxQueue
    /\ \E n \in DOMAIN nodes : \E obj \in NodeObjects(n) \ {nodes[n]} :
         /\ nodes' = [nodes EXCEPT ![n] = obj]
         /\ queue' = Append(queue, WatchEvent("MODIFIED", obj))
         /\ sg' = [Changed EXCEPT !.returned =
                      IF DeletionTaintsOf(nodes[n].taints) # {}
                           /\ DeletionTaintsOf(obj.taints) = {}
                      THEN @ \cup {n} ELSE @ \ {n}]
    /\ envChanges' = envChanges + 1
    /\ UNCHANGED <<cfVars, otherVars, services, records, faults, faultChanges, mgrVars, sweepVars,
                   watchVars, hg>>

EnvDeleteNode ==
    /\ CanChange
    /\ Len(queue) < MaxQueue
    /\ \E n \in DOMAIN nodes :
         /\ nodes' = [m \in DOMAIN nodes \ {n} |-> nodes[m]]
         /\ queue' = Append(queue, WatchEvent("DELETED", nodes[n]))
         /\ sg' = [Changed EXCEPT !.returned = @ \ {n}]
    /\ envChanges' = envChanges + 1
    /\ UNCHANGED <<cfVars, otherVars, services, records, faults, faultChanges, mgrVars, sweepVars,
                   watchVars, hg>>

EnvSetServices ==
    /\ CanChange
    /\ \E l \in ServiceLists \ {services} : services' = l
    /\ envChanges' = envChanges + 1
    /\ sg' = [Changed EXCEPT !.intents_changed = TRUE]
    /\ UNCHANGED <<cfVars, otherVars, nodes, records, faults, faultChanges, queue, mgrVars, sweepVars,
                   watchVars, hg>>

\* a call starts or stops failing
EnvSetFault ==
    /\ faultChanges < MaxFaultChanges
    /\ \E f \in FaultPoints :
         faults' = IF f \in faults THEN faults \ {f} ELSE faults \cup {f}
    /\ faultChanges' = faultChanges + 1
    /\ UNCHANGED <<cfVars, otherVars, nodes, services, records, envChanges, queue, mgrVars, sweepVars,
                   watchVars, sg, hg>>

(***************************************************************************)
(* The system: the state once DNSManager.start has run (the service        *)
(* configurations are loaded, the watch is open and has not delivered      *)
(* anything), the scheduler job, the watch worker, the environment.        *)
(***************************************************************************)
Init ==
    /\ nodes \in InitialClusters
    /\ services \in ServiceLists
    /\ records \in InitialRecordSets
    /\ faults = {}
    /\ envChanges = 0
    /\ faultChanges = 0
    /\ queue = InitialEvents(nodes)
    /\ node_cache = << >>
    /\ service_configs_cache = ConfigsOf(services)
    /\ sync_reports = << >>
    /\ events = << >>
    /\ last_sync_time = 0
    /\ spc = "idle"
    /\ sw = NoSweep
    /\ sweeps = 0
    /\ wpc = "idle"
    /\ wh = NoCallback
    /\ sg = NoSweepHistory
    /\ zones = InitialZones
    /\ zones_cache = zones
    /\ hostname_to_zone = << >>
    /\ skipped = 0
    /\ health = NoHealth
    /\ call = NoCall
    /\ hg = NoCallbackHistory
    /\ Started

Sweep ==
    \/ SweepStart
    \/ SweepListNodes
    \/ SweepSyncList
    \/ SweepSyncDelete
    \/ SweepCreateList
    \/ SweepCreateCheck
    \/ SweepCreatePost
    \/ SweepReport

Watch ==
    \/ WatchReceive
    \/ CallbackStart
    \/ CallbackList
    \/ CallbackDelete
    \/ CallbackRecord

Env ==
    \/ EnvAddNode
    \/ EnvModifyNode
    \/ EnvDeleteNode
    \/ EnvSetServices
    \/ EnvSetFault

Next == Sweep \/ Watch \/ Env

Spec == Init /\ [][Next]_vars


(***************************************************************************)
(* The node listing alone, over node objects of every shape: addresses of  *)
(* both types, the flannel annotation, taints of several keys and effects, *)
(* every readiness.                                                        *)
(***************************************************************************)
AddressLists ==
    { << >>,
      <<[type |-> "InternalIP", address |-> "10.0.0.9"]>>,
      <<[type |-> "ExternalIP", address |-> "ip1"]>>,
      <<[type |-> "InternalIP", address |-> "10.0.0.9"],
        [type |-> "ExternalIP", address |-> "ip2"]>>,
      <<[type |-> "ExternalIP", address |-> "ip1"],
        [type |-> "ExternalIP", address |-> "ip2"]>> }

TaintPool ==
    { Taint("DeletionCandidateOfClusterAutoscaler", "PreferNoSchedule"),
      Taint("ToBeDeletedByClusterAutoscaler", "NoSchedule"),
      Taint("ToBeDeletedByClusterAutoscaler", "NoExecute"),
      Taint(OtherTaintKey, "NoSchedule") }

AnyNodeObjects(n) ==
    { [name |-> n, addresses |-> a, flannel |-> f, taints |-> ts, ready |-> r] :
        a \in AddressLists, f \in {NoIP, "ip2"}, ts \in SUBSET TaintPool,
        r \in {"True", "False", "Unknown"} }

AnyClusters ==
    { [n \in {"n1"} |-> o] : o \in AnyNodeObjects("n1") }
      \cup { [n \in NodeNames |-> IF n = "n1" THEN o ELSE p] :
                o \in AnyNodeObjects("n1"), p \in NodeObjects("n2") }

InitNodes ==
    /\ nodes \in AnyClusters
    /\ services \in ServiceLists
    /\ records = {}
    /\ faults = {}
    /\ envChanges = 0
    /\ faultChanges = 0
    /\ queue = << >>
    /\ node_cache = << >>
    /\ service_configs_cache = ConfigsOf(services)
    /\ sync_reports = << >>
    /\ events = << >>
    /\ last_sync_time = 0
    /\ spc = "idle"
    /\ sw = NoSweep
    /\ sweeps = 0
    /\ wpc = "idle"
    /\ wh = NoCallback
    /\ sg = NoSweepHistory
    /\ zones = InitialZones
    /\ zones_cache = zones
    /\ hostname_to_zone = << >>
    /\ skipped = 0
    /\ health = NoHealth
    /\ call = NoCall
    /\ hg = NoCallbackHistory
    /\ Started

NextNodes == SweepStart \/ SweepListNodes

SpecNodes == InitNodes /\ [][NextNodes]_vars


(***************************************************************************)
(* The system with two services, the zone of the first of which the        *)
(* account does not hold: every provider call for its hostname raises.     *)
(***************************************************************************)
ZonesWithoutFirst == ("acme.io" :> "Z2")

TwoServices ==
    <<Service("a", "true", "h1.example.com", ""),
      Service("b", "true", "h2.acme.io", "120")>>

IntentRecordSets ==
    { {},
      {Record(1, "h1.example.com", "ip3", 300, FALSE),
       Record(2, "h2.acme.io", "ip3", 120, FALSE)},
      {Record(1, "h1.example.com", "ip1", 300, FALSE),
       Record(2, "h2.acme.io", "ip1", 120, FALSE)} }

InitIntents ==
    /\ nodes \in InitialClusters
    /\ services = TwoServices
    /\ records \in IntentRecordSets
    /\ faults = {}
    /\ envChanges = 0
    /\ faultChanges = 0
    /\ queue = InitialEvents(nodes)
    /\ node_cache = << >>
    /\ service_configs_cache = ConfigsOf(services)
    /\ sync_reports = << >>
    /\ events = << >>
    /\ last_sync_time = 0
    /\ spc = "idle"
    /\ sw = NoSweep
    /\ sweeps = 0
    /\ wpc = "idle"
    /\ wh = NoCallback
    /\ zones = ZonesWithoutFirst
    /\ zones_cache = zones
    /\ hostname_to_zone = << >>
    /\ skipped = 0
    /\ health = NoHealth
    /\ call = NoCall
    /\ sg = NoSweepHistory
    /\ hg = NoCallbackHistory
    /\ Started

SpecIntents == InitIntents /\ [][Next]_vars

(***************************************************************************)
(* The system after a long life: the two logs are as long as their caps.   *)
(* The reports are those of sweeps that ended in the except clause, the    *)
(* events those of a node deleted again and again.                         *)
(***************************************************************************)
FullReportLog == [i \in 1..ReportCap |-> ErrorReport(i)]

FullEventLog ==
    [i \in 1..EventCap |->
        [event_type |-> "node_deleted", timestamp |-> i, node_name |-> "n2",
         node_ip |-> "ip2", success |-> TRUE, records_deleted |-> 0,
         records_created |-> 0]]

InitLogs ==
    /\ nodes \in {c \in InitialClusters : \A n \in DOMAIN c : c[n].taints = {}}
    /\ services = <<Service("a", "true", "h1.example.com", "")>>
    /\ records = {Record(1, "h1.example.com", "ip1", 300, FALSE),
                  Record(2, "h1.example.com", "ip3", 300, FALSE)}
    /\ faults = {}
    /\ envChanges = 0
    /\ faultChanges = 0
    /\ queue = InitialEvents(nodes)
    /\ node_cache = << >>
    /\ service_configs_cache = ConfigsOf(services)
    /\ sync_reports = FullReportLog
    /\ events = FullEventLog
    /\ last_sync_time = 0
    /\ spc = "idle"
    /\ sw = NoSweep
    /\ sweeps = 0
    /\ wpc = "idle"
    /\ wh = NoCallback
    /\ zones = InitialZones
    /\ zones_cache = zones
    /\ hostname_to_zone = << >>
    /\ skipped = 0
    /\ health = NoHealth
    /\ call = NoCall
    /\ sg = NoSweepHistory
    /\ hg = NoCallbackHistory
    /\ Started

SpecLogs == InitLogs /\ [][Next]_vars

(***************************************************************************)
(* The controller after node n2, which was Departing when it was added,    *)
(* has been deleted from the cluster: the Deleted event is in the stream.  *)
(* The provider holds records of its IP, left by an earlier life of the    *)
(* controller, beside those of n1.                                         *)
(***************************************************************************)
DepartedNode == NodeObject("n2", TRUE, DELETION_TAINTS)

DepartedRecordSets ==
    { {Record(1, "h1.example.com", "ip2", 300, FALSE)},
      {Record(1, "h1.example.com", "ip1", 300, FALSE),
       Record(2, "h1.example.com", "ip2", 300, FALSE),
       Record(3, "h2.acme.io", "ip2", 120, FALSE)} }

InitDeleted ==
    /\ nodes = [n \in {"n1"} |-> NodeObject(n, TRUE, {})]
    /\ services \in ServiceLists
    /\ records \in DepartedRecordSets
    /\ faults = {}
    /\ envChanges = 0
    /\ faultChanges = 0
    /\ queue = <<WatchEvent("DELETED", DepartedNode)>>
    /\ node_cache = [n \in NodeNames |->
                        ExtractNodeInfo(IF n = "n1" THEN nodes[n] ELSE DepartedNode)]
    /\ service_configs_cache = ConfigsOf(services)
    /\ sync_reports = << >>
    /\ events = << >>
    /\ last_sync_time = 0
    /\ spc = "idle"
    /\ sw = NoSweep
    /\ sweeps = 0
    /\ wpc = "idle"
    /\ wh = NoCallback
    /\ zones = InitialZones
    /\ zones_cache = zones
    /\ hostname_to_zone = << >>
    /\ skipped = 0
    /\ health = NoHealth
    /\ call = NoCall
    /\ sg = NoSweepHistory
    /\ hg = NoCallbackHistory
    /\ Started

SpecDeleted == InitDeleted /\ [][Next]_vars

(***************************************************************************)
(* The controller in a cluster one of whose services carries a ttl         *)
(* annotation that is not an integer.                                      *)
(***************************************************************************)
MalformedServices ==
    <<Service("a", "true", "h1.example.com", ""),
      Service("b", "true", "h2.acme.io", "5m")>>

\* DNSManager.start lines 43-45 on the empty list of __init__ line 33
StartConfigs(svcs) == IF ConfigsRaise(svcs) THEN << >> ELSE ConfigsOf(svcs)

\* the annotation was there when the controller started, or it was set on a
\* service the controller had read
InitTtl ==
    /\ nodes \in InitialClusters
    /\ services = MalformedServices
    /\ records \in InitialRecordSets
    /\ faults = {}
    /\ envChanges = 0
    /\ faultChanges = 0
    /\ queue = InitialEvents(nodes)
    /\ node_cache = << >>
    /\ service_configs_cache \in {StartConfigs(services), StartConfigs(TwoServices)}
    /\ sync_reports = << >>
    /\ events = << >>
    /\ last_sync_time = 0
    /\ spc = "idle"
    /\ sw = NoSweep
    /\ sweeps = 0
    /\ wpc = "idle"
    /\ wh = NoCallback
    /\ zones = InitialZones
    /\ zones_cache = zones
    /\ hostname_to_zone = << >>
    /\ skipped = 0
    /\ health = NoHealth
    /\ call = NoCall
    /\ sg = NoSweepHistory
    /\ hg = NoCallbackHistory
    /\ Started

SpecTtl == InitTtl /\ [][Next]_vars

(***************************************************************************)
(* The controller with a service whose ttl or proxied annotation was       *)
(* changed after its records were created with ttl 300, not proxied.       *)
(***************************************************************************)
ChangedServiceLists ==
    { <<Service("a", "true", "h1.example.com", "120")>>,
      <<[Service("a", "true", "h1.example.com", "") EXCEPT !.proxied = "true"]>> }

InitSettings ==
    /\ nodes \in InitialClusters
    /\ services \in ChangedServiceLists
    /\ records \in InitialRecordSets
    /\ faults = {}
    /\ envChanges = 0
    /\ faultChanges = 0
    /\ queue = InitialEvents(nodes)
    /\ node_cache = << >>
    /\ service_configs_cache = ConfigsOf(services)
    /\ sync_reports = << >>
    /\ events = << >>
    /\ last_sync_time = 0
    /\ spc = "idle"
    /\ sw = NoSweep
    /\ sweeps = 0
    /\ wpc = "idle"
    /\ wh = NoCallback
    /\ zones = InitialZones
    /\ zones_cache = zones
    /\ hostname_to_zone = << >>
    /\ skipped = 0
    /\ health = NoHealth
    /\ call = NoCall
    /\ sg = NoSweepHistory
    /\ hg = NoCallbackHistory
    /\ Started

SpecSettings == InitSettings /\ [][Next]_vars

(***************************************************************************)
(* The scheduler alone: the interval trigger fires the job, also while an  *)
(* instance of it runs.                                                    *)
(***************************************************************************)
NextSched == Sweep \/ SweepSkipped

SpecSched == Init /\ [][NextSched]_vars

(***************************************************************************)
(* The handler alone: _handle_node_event called with an event of any type  *)
(* and a node of any kind (the watch worker calls it for some of them      *)
(* only, see _should_trigger_callback).                                    *)
(***************************************************************************)
\* the node of the event: n1 with or without an external IP, with none,
\* one or both of the deletion taints
HandlerNodes ==
    {ExtractNodeInfo(NodeObject("n1", hasIP, ks)) :
        hasIP \in BOOLEAN, ks \in TaintKeySets}

InitHandler ==
    /\ nodes = [n \in NodeNames |-> NodeObject(n, TRUE, {})]
    /\ services \in ServiceLists
    /\ records \in InitialRecordSets
    /\ faults = {}
    /\ envChanges = 0
    /\ faultChanges = 0
    /\ queue = << >>
    /\ node_cache = << >>
    /\ service_configs_cache = ConfigsOf(services)
    /\ sync_reports = << >>
    /\ events = << >>
    /\ last_sync_time = 0
    /\ spc = "idle"
    /\ sw = NoSweep
    /\ sweeps = 0
    /\ wpc = "callback"
    /\ \E t \in {"ADDED", "MODIFIED", "DELETED"} : \E node_info \in HandlerNodes :
         wh = [NoCallback EXCEPT !.type = t, !.node = node_info]
    /\ zones \in {InitialZones, ZonesWithoutFirst}
    /\ zones_cache = zones
    /\ hostname_to_zone = << >>
    /\ skipped = 0
    /\ health = NoHealth
    /\ call = NoCall
    /\ sg = NoSweepHistory
    /\ hg = NoCallbackHistory
    /\ Started

NextHandler ==
    \/ CallbackStart
    \/ CallbackList
    \/ CallbackDelete
    \/ CallbackAddCheck
    \/ CallbackAddPost
    \/ CallbackRecord
    \/ EnvSetFault

SpecHandler == InitHandler /\ [][NextHandler]_vars

(***************************************************************************)
(* The health job and the zones: get_health_status runs in the scheduler's *)
(* health job and in the HTTP health routes; the zones of the account      *)
(* change; the threads of the controller resolve hostnames.                *)
(***************************************************************************)
MaxHealthChecks == 2

\* what the account can come to hold: example.com removed, example.com
\* created again under a new id, a zone for svc.example.com added, nothing
ZoneMaps ==
    { InitialZones,
      ("acme.io" :> "Z2"),
      ("example.com" :> "Z3") @@ ("acme.io" :> "Z2"),
      ("svc.example.com" :> "Z4") @@ InitialZones,
      << >> }

\* the hostnames the controller resolves
ResolveNames == {"api.svc.example.com", "h2.acme.io", "db.internal"}

\* k8s_api: the API server is not reached; list_nodes: it is reached and
\* refuses list_node; cf_zones: the provider's API is not reached
HealthFaultPoints == {"k8s_api", "list_nodes", "cf_zones"}

\* k8s health_check lines 289-311: get_api_resources, then list_node
K8sHealthCheck ==
    IF "k8s_api" \in faults \/ "list_nodes" \in faults
    THEN [status |-> "unhealthy", api_accessible |-> FALSE]
    ELSE [status |-> "healthy", api_accessible |-> TRUE]

\* _refresh_zones_cache lines 50-61: zones.get raises
RefreshZonesRaises == "cf_zones" \in faults

\* _refresh_zones_cache lines 52-53: the zone cache it leaves; the hostname
\* cache is not touched
RefreshedZones == IF RefreshZonesRaises THEN zones_cache ELSE zones

\* cloudflare health_check lines 350-371
CfHealthCheck ==
    IF RefreshZonesRaises \/ DOMAIN RefreshedZones = {}
    THEN [status |-> "unhealthy", api_accessible |-> FALSE]
    ELSE [status |-> "healthy", api_accessible |-> TRUE]

\* get_health_status lines 445-453
OverallStatus(k8s_health, cf_health) ==
    IF k8s_health.status = "healthy" /\ cf_health.status = "healthy" THEN "healthy"
    ELSE IF k8s_health.api_accessible /\ cf_health.api_accessible THEN "degraded"
    ELSE "unhealthy"

\* get_health_status lines 436-496: the two checks, the overall status, and
\* get_all_nodes (line 464), which writes the node cache when it succeeds
GetHealthStatus ==
    /\ health.timestamp < MaxHealthChecks
    /\ zones_cache' = RefreshedZones
    /\ health' = [status |-> OverallStatus(K8sHealthCheck, CfHealthCheck),
                  timestamp |-> health.timestamp + 1,
                  kubernetes_status |-> K8sHealthCheck,
                  cloudflare_status |-> CfHealthCheck,
                  last_sync |-> last_sync_time]
    /\ node_cache' =
          IF "k8s_api" \in faults \/ "list_nodes" \in faults THEN node_cache
          ELSE [n \in DOMAIN node_cache \cup DOMAIN nodes |->
                   IF n \in DOMAIN nodes THEN ExtractNodeInfo(nodes[n])
                   ELSE node_cache[n]]
    /\ UNCHANGED <<zones, hostname_to_zone, skipped, call, lifeVars, envVars,
                   service_configs_cache, sync_reports, events, last_sync_time,
                   sweepVars, watchVars, sg, hg>>

\* a call of _get_zone_for_hostname; call keeps what it returned and the
\* zone cache it ran with
ResolveZone ==
    /\ \E hostname \in ResolveNames :
         LET r == GetZoneForHostname(hostname, hostname_to_zone)
         IN /\ hostname_to_zone' = r.hostname_to_zone
            /\ call' = [name |-> "_get_zone_for_hostname", hostname |-> hostname,
                        zone_id |-> r.zone_id, zones_cache |-> zones_cache]
    /\ UNCHANGED <<zones, zones_cache, skipped, health, lifeVars, envVars, mgrVars, sweepVars,
                   watchVars, sg, hg>>

\* the zones of the account change
EnvSetZones ==
    /\ CanChange
    /\ \E z \in ZoneMaps \ {zones} : zones' = z
    /\ envChanges' = envChanges + 1
    /\ UNCHANGED <<zones_cache, hostname_to_zone, otherVars, nodes, services, records,
                   faults, faultChanges, queue, mgrVars, sweepVars, watchVars, sg, hg>>

EnvSetHealthFault ==
    /\ faultChanges < MaxFaultChanges
    /\ \E f \in HealthFaultPoints :
         faults' = IF f \in faults THEN faults \ {f} ELSE faults \cup {f}
    /\ faultChanges' = faultChanges + 1
    /\ UNCHANGED <<cfVars, otherVars, nodes, services, records, envChanges, queue,
                   mgrVars, sweepVars, watchVars, sg, hg>>

\* a cluster of two healthy nodes, both services, no record
InitZones ==
    /\ Init
    /\ DOMAIN nodes = NodeNames
    /\ \A n \in NodeNames : DeletionTaintsOf(nodes[n].taints) = {}
    /\ Len(services) = 2
    /\ records = {}

NextZones == GetHealthStatus \/ ResolveZone \/ EnvSetZones \/ EnvSetHealthFault

SpecZones == InitZones /\ [][NextZones]_vars

(***************************************************************************)
(* The construction of CloudFlareClient: __init__ and _init_client, with   *)
(* the zones the account exposes at that time, and the health checks of    *)
(* the client it leaves.                                                   *)
(***************************************************************************)
\* _init_client lines 34-36: the configuration holds no API token
TokenMissing == "cf_token" \in faults

\* _init_client lines 31-48: ValueError for a missing token, or what
\* _refresh_zones_cache raises; nothing else is checked
InitClientRaises == TokenMissing \/ RefreshZonesRaises

\* __init__ has returned
ClientConstructed == call.name = "_init_client" /\ call.pc = "returned"

\* __init__ lines 19-29 and _init_client
CfInitClient ==
    /\ call = NoCall
    /\ zones_cache' = IF TokenMissing THEN zones_cache ELSE RefreshedZones
    /\ call' = [name |-> "_init_client",
                pc |-> IF InitClientRaises THEN "raised" ELSE "returned"]
    /\ UNCHANGED <<zones, hostname_to_zone, skipped, health, lifeVars, envVars, mgrVars,
                   sweepVars, watchVars, sg, hg>>

\* a health check of the controller that holds the client
ClientHealthStatus == ClientConstructed /\ GetHealthStatus

\* the attributes as __init__ lines 23-24 set them
InitClient ==
    /\ nodes = << >>
    /\ services = << >>
    /\ records = {}
    /\ faults \in {{}, {"cf_token"}}
    /\ envChanges = 0
    /\ faultChanges = 0
    /\ queue = << >>
    /\ node_cache = << >>
    /\ service_configs_cache = << >>
    /\ sync_reports = << >>
    /\ events = << >>
    /\ last_sync_time = 0
    /\ spc = "idle"
    /\ sw = NoSweep
    /\ sweeps = 0
    /\ wpc = "idle"
    /\ wh = NoCallback
    /\ zones \in ZoneMaps
    /\ zones_cache = << >>
    /\ hostname_to_zone = << >>
    /\ skipped = 0
    /\ health = NoHealth
    /\ call = NoCall
    /\ sg = NoSweepHistory
    /\ hg = NoCallbackHistory
    /\ Started

NextClient == CfInitClient \/ ClientHealthStatus \/ EnvSetZones \/ EnvSetHealthFault

SpecClient == InitClient /\ [][NextClient]_vars

(***************************************************************************)
(* The retry decorator of get_dns_records, create_dns_record,              *)
(* delete_dns_record and get_all_nodes, attempt by attempt (the sweep and  *)
(* the handler above take a decorated call as one step).                   *)
(***************************************************************************)
MaxCalls == 2

\* client.py lines 88, 137, 191
stop_max_attempt_number == 3

\* cloudflare/client.py lines 88, 137, 191; k8s/client.py line 54
RetriedCalls ==
    {"get_dns_records", "create_dns_record", "delete_dns_record", "get_all_nodes"}

\* cloudflare/client.py lines 209, 262: the methods that call get_dns_records
\* and delete_dns_record, and carry no decorator
CompositeCalls == {"delete_dns_records_by_ip", "sync_dns_records_for_hostname"}

MaxAttemptsOneMore(name) ==
    IF name \in RetriedCalls THEN stop_max_attempt_number + 1 ELSE 1

\* the times a method is called for one call of it: stop_max_attempt_number
\* under the decorator, once without
MaxAttempts(name) ==
    IF name \in RetriedCalls THEN stop_max_attempt_number ELSE 1

\* a hostname of a zone of the account, and one of no zone
RetryNames == {"h1.example.com", "db.internal"}

\* an id the provider holds, and one it does not hold
RetryIds == {1, 3}

\* cf_4xx: the provider refuses the request (authentication, not found);
\* cf_5xx: the provider or the network fails for the time being
\* list_nodes: the API server refuses list_node
RetryFaultPoints == {"cf_4xx", "cf_5xx", "list_nodes"}

NoFailure == [exception |-> "", permanent |-> FALSE]

\* how an attempt ends: the exception it raises ("" when it returns) and
\* whether the failure is one that another attempt cannot cure
AttemptFailure(name, hostname, record_id) ==
    IF name = "get_all_nodes"
    THEN \* k8s/client.py lines 70-77
         IF "list_nodes" \in faults
         THEN [exception |-> "ApiException", permanent |-> FALSE]
         ELSE NoFailure
    ELSE IF name # "delete_dns_record" /\ NoZoneFor(hostname)
    THEN [exception |-> "ValueError", permanent |-> TRUE]
    ELSE IF "cf_4xx" \in faults
    THEN [exception |-> "CloudFlareAPIError", permanent |-> TRUE]
    ELSE IF "cf_5xx" \in faults
    THEN [exception |-> "CloudFlareAPIError", permanent |-> FALSE]
    ELSE IF name = "delete_dns_record" /\ ~(\E r \in records : r.id = record_id)
    THEN \* the provider does not hold the record
         [exception |-> "CloudFlareAPIError", permanent |-> TRUE]
    ELSE NoFailure

\* @retry without retry_on_exception: an attempt that raised is rejected
\* whatever it raised
RetryOnException(exception) == TRUE

\* a thread of the controller calls a decorated method
CallStart ==
    /\ \/ call = NoCall
       \/ call.name \in RetriedCalls /\ call.pc # "attempt" /\ call.n < MaxCalls
    /\ \E name \in RetriedCalls, hostname \in RetryNames, record_id \in RetryIds,
          within \in CompositeCalls \cup {""} :
         call' = [name |-> name,
                  hostname |-> IF name \in {"get_dns_records", "create_dns_record"}
                               THEN hostname ELSE "",
                  record_id |-> IF name = "delete_dns_record" THEN record_id ELSE 0,
                  \* the composite method that makes the call, and the times
                  \* its body was entered
                  within |-> IF name = "get_dns_records" THEN within ELSE "",
                  runs |-> 1,
                  attempt_number |-> 0, pc |-> "attempt", failure |-> NoFailure,
                  n |-> IF call = NoCall THEN 1 ELSE call.n + 1]
    /\ UNCHANGED <<cfVars, skipped, health, lifeVars, envVars, mgrVars, sweepVars,
                   watchVars, sg, hg>>

\* one attempt of the decorated method: it returns, or it raises and the
\* decorator waits wait_fixed and calls again, or it raises for the
\* stop_max_attempt_number-th time and the decorator raises what it raised
CallAttempt ==
    /\ call.name \in RetriedCalls
    /\ call.pc = "attempt"
    /\ LET failure == AttemptFailure(call.name, call.hostname, call.record_id)
           attempt_number == call.attempt_number + 1
           again == RetryOnException(failure.exception)
                       /\ attempt_number < MaxAttempts(call.name)
           \* the exception of get_dns_records leaves the composite method
           \* (lines 233-236, 303-306), which is called again only under a
           \* decorator of its own
           whole_again == call.within # "" /\ call.runs < MaxAttempts(call.within)
       IN /\ call' =
                IF failure.exception = ""
                THEN [call EXCEPT !.attempt_number = attempt_number,
                                  !.failure = failure, !.pc = "returned"]
                ELSE IF again
                THEN [call EXCEPT !.attempt_number = attempt_number,
                                  !.failure = failure, !.pc = "attempt"]
                ELSE IF whole_again
                THEN [call EXCEPT !.attempt_number = 0, !.failure = failure,
                                  !.runs = @ + 1, !.pc = "attempt"]
                ELSE [call EXCEPT !.attempt_number = attempt_number,
                                  !.failure = failure, !.pc = "raised"]
          /\ records' =
                IF failure.exception # "" \/ call.name \in {"get_dns_records", "get_all_nodes"}
                THEN records
                ELSE IF call.name = "create_dns_record"
                THEN AfterCreate(call.hostname, "ip2", 300, FALSE)
                ELSE AfterDelete([id |-> call.record_id])
          /\ hostname_to_zone' =
                IF call.name \in {"delete_dns_record", "get_all_nodes"}
                THEN hostname_to_zone
                ELSE Resolved(call.hostname)
          \* get_all_nodes lines 58-66 writes the node cache
          /\ node_cache' =
                IF failure.exception # "" \/ call.name # "get_all_nodes" THEN node_cache
                ELSE [n \in DOMAIN node_cache \cup DOMAIN nodes |->
                         IF n \in DOMAIN nodes THEN ExtractNodeInfo(nodes[n])
                         ELSE node_cache[n]]
    /\ UNCHANGED <<zones, zones_cache, skipped, health, lifeVars, nodes, services, faults,
                   envChanges, faultChanges, queue, service_configs_cache,
                   sync_reports, events, last_sync_time, sweepVars, watchVars, sg, hg>>

EnvSetRetryFault ==
    /\ faultChanges < MaxFaultChanges
    /\ \E f \in RetryFaultPoints :
         faults' = IF f \in faults THEN faults \ {f} ELSE faults \cup {f}
    /\ faultChanges' = faultChanges + 1
    /\ UNCHANGED <<cfVars, otherVars, nodes, services, records, envChanges, queue,
                   mgrVars, sweepVars, watchVars, sg, hg>>

\* a cluster of two healthy nodes, both services, a record of each
InitRetry ==
    /\ Init
    /\ DOMAIN nodes = NodeNames
    /\ \A n \in NodeNames : DeletionTaintsOf(nodes[n].taints) = {}
    /\ Len(services) = 2
    /\ Cardinality(records) = 2

NextRetry == CallStart \/ CallAttempt \/ EnvSetRetryFault

SpecRetry == InitRetry /\ [][NextRetry]_vars

(***************************************************************************)
(* The threads of _watch_nodes, start_watching and stop_watching.  A       *)
(* thread is at the test of its while loop ("while"), inside its for loop  *)
(* ("stream"), or has returned ("done").  The threads read the one stream  *)
(* of the model; the callback of one of them runs at a time.               *)
(***************************************************************************)
\* the threads start_watching starts in one behaviour
MaxThreads == 2

\* line 188: the test of the while loop
WatchLoop ==
    /\ \E i \in 1..Len(watch_threads) :
         /\ watch_threads[i] = "while"
         /\ watch_threads' =
               [watch_threads EXCEPT ![i] = IF watch_active THEN "stream" ELSE "done"]
    /\ UNCHANGED <<watch_active, scheduler, main, skipped, health, call, cfVars,
                   envVars, mgrVars, sweepVars, watchVars, sg, hg>>

\* lines 191-193, 228-229: an event arrives and the flag is not set: break
WatchBreak ==
    /\ AtStream
    /\ ~CheckStopFlag
    /\ queue # << >>
    /\ queue' = Tail(queue)
    /\ \E i \in StreamingThreads :
         watch_threads' = [watch_threads EXCEPT ![i] = "while"]
    /\ UNCHANGED <<watch_active, scheduler, main, skipped, health, call, cfVars,
                   nodes, services, records, faults, envChanges, faultChanges,
                   mgrVars, sweepVars, watchVars, sg, hg>>

\* lines 191, 218-229: the stream ends after timeout_seconds, or raises and
\* the except clause sleeps when the flag is set; both lead to the while test
WatchStreamEnds ==
    /\ AtStream
    /\ \E i \in StreamingThreads :
         watch_threads' = [watch_threads EXCEPT ![i] = "while"]
    /\ UNCHANGED <<watch_active, scheduler, main, skipped, health, call, cfVars,
                   envVars, mgrVars, sweepVars, watchVars, sg, hg>>

LiveThreads == {i \in 1..Len(watch_threads) : watch_threads[i] # "done"}

\* start_watching lines 167-169
StartsThread == ~watch_active

\* start_watching lines 165-174
StartWatching ==
    /\ Len(watch_threads) < MaxThreads
    /\ IF StartsThread
       THEN /\ watch_active' = TRUE
            /\ watch_threads' = Append(watch_threads, "while")
       ELSE UNCHANGED <<watch_active, watch_threads>>
    /\ UNCHANGED <<scheduler, main, skipped, health, call, cfVars, envVars, mgrVars,
                   sweepVars, watchVars, sg, hg>>

\* stop_watching lines 176-181: the flag, and a join that gives up after
\* 5 seconds whether the thread has returned or not
StopWatching ==
    /\ watch_active
    /\ watch_active' = FALSE
    /\ UNCHANGED <<watch_threads, scheduler, main, skipped, health, call, cfVars,
                   envVars, mgrVars, sweepVars, watchVars, sg, hg>>

\* two healthy nodes, one service, a record of the first node
InitWatch ==
    /\ Init
    /\ DOMAIN nodes = NodeNames
    /\ \A n \in NodeNames : DeletionTaintsOf(nodes[n].taints) = {}
    /\ Len(services) = 1
    /\ Cardinality(records) = 2

NextWatch ==
    \/ Watch
    \/ WatchLoop
    \/ WatchBreak
    \/ WatchStreamEnds
    \/ StartWatching
    \/ StopWatching
    \/ EnvModifyNode

SpecWatch == InitWatch /\ [][NextWatch]_vars

\* the threads and the callback go on; the stream of a thread yields an
\* event or ends after its timeout
SpecWatchFair ==
    /\ SpecWatch
    /\ WF_vars(Watch)
    /\ WF_vars(WatchLoop)
    /\ WF_vars(WatchStreamEnds)

(***************************************************************************)
(* The shutdown: signal_handler of main.py, on the main thread.            *)
(***************************************************************************)
ShutdownNoWait == FALSE

\* main.py line 56: scheduler.shutdown(wait=True)
ShutdownWaits == TRUE

\* SIGINT or SIGTERM arrives (main.py lines 62-63)
MainSignal ==
    /\ main = "loop"
    /\ main' = "stop"
    /\ UNCHANGED <<watch_active, watch_threads, scheduler, skipped, health, call,
                   cfVars, envVars, mgrVars, sweepVars, watchVars, sg, hg>>

\* main.py lines 51-53: dns_manager.stop, which is stop_watching
MainStop ==
    /\ main = "stop"
    /\ main' = "shutdown"
    /\ watch_active' = FALSE
    /\ UNCHANGED <<watch_threads, scheduler, skipped, health, call,
                   cfVars, envVars, mgrVars, sweepVars, watchVars, sg, hg>>

\* main.py lines 55-56: shutdown stops the scheduler, which starts no job
\* from now on, ...
MainShutdown ==
    /\ main = "shutdown"
    /\ main' = "wait"
    /\ scheduler' = "stopped"
    /\ UNCHANGED <<watch_active, watch_threads, skipped, health, call,
                   cfVars, envVars, mgrVars, sweepVars, watchVars, sg, hg>>

\* ... and with wait it returns when the executor runs no job; sys.exit
\* (main.py line 59) then ends the process
MainExit ==
    /\ main = "wait"
    /\ ShutdownWaits => ~SweepBusy
    /\ main' = "exit"
    /\ UNCHANGED <<watch_active, watch_threads, scheduler, skipped, health, call,
                   cfVars, envVars, mgrVars, sweepVars, watchVars, sg, hg>>

\* the watch threads are daemon threads, which end with the process at any
\* point of their code: the steps they take after the exit stand for that
NextShutdown ==
    \/ Sweep
    \/ Watch
    \/ WatchLoop
    \/ WatchBreak
    \/ WatchStreamEnds
    \/ EnvModifyNode
    \/ MainSignal
    \/ MainStop
    \/ MainShutdown
    \/ MainExit

SpecShutdown == InitWatch /\ [][NextShutdown]_vars

(***************************************************************************)
(* The controller until the cluster has stopped changing.  The timer fires *)
(* for ever; in the MaxSweeps sweeps of a behaviour, the last one stands   *)
(* for the first that starts when the cluster has stopped changing and the *)
(* watch worker has read the events of its changes.                        *)
(***************************************************************************)
\* the watch worker has nothing to read and runs no callback
WatchQuiet == queue = << >> /\ wpc = "idle"

EarlySweepStart == sweeps < MaxSweeps - 1 /\ SweepStart

LastSweepStart == sweeps = MaxSweeps - 1 /\ WatchQuiet /\ SweepStart

SweepSteps ==
    \/ SweepListNodes
    \/ SweepSyncList
    \/ SweepSyncDelete
    \/ SweepCreateList
    \/ SweepCreateCheck
    \/ SweepCreatePost
    \/ SweepReport

\* the changes come before the last sweep starts
EarlyModifyNode == sweeps < MaxSweeps /\ EnvModifyNode

EarlyDeleteNode == sweeps < MaxSweeps /\ EnvDeleteNode

EarlySetFault == sweeps < MaxSweeps /\ EnvSetFault

\* as Init, with one service and a call that may be failing
InitConverge ==
    /\ nodes \in InitialClusters
    /\ services = <<Service("a", "true", "h1.example.com", "")>>
    /\ records \in InitialRecordSets
    /\ faults \in {{}} \cup {{f} : f \in FaultPoints}
    /\ envChanges = 0
    /\ faultChanges = 0
    /\ queue = InitialEvents(nodes)
    /\ node_cache = << >>
    /\ service_configs_cache = ConfigsOf(services)
    /\ sync_reports = << >>
    /\ events = << >>
    /\ last_sync_time = 0
    /\ spc = "idle"
    /\ sw = NoSweep
    /\ sweeps = 0
    /\ wpc = "idle"
    /\ wh = NoCallback
    /\ zones = InitialZones
    /\ zones_cache = zones
    /\ hostname_to_zone = << >>
    /\ skipped = 0
    /\ health = NoHealth
    /\ call = NoCall
    /\ sg = NoSweepHistory
    /\ hg = NoCallbackHistory
    /\ Started

NextConverge ==
    \/ EarlySweepStart
    \/ LastSweepStart
    \/ SweepSteps
    \/ Watch
    \/ EarlyModifyNode
    \/ EarlyDeleteNode
    \/ EarlySetFault

\* the timer fires, the job and the watch worker go on
SpecConverge ==
    /\ InitConverge
    /\ [][NextConverge]_vars
    /\ WF_vars(EarlySweepStart \/ LastSweepStart \/ SweepSteps)
    /\ WF_vars(Watch)

(***************************************************************************)
(* The properties.  They are stated in the words of the specification: a   *)
(* node is Departing when every configured taint key is among the keys of  *)
(* its taints; its external IP is its first ExternalIP address, else its   *)
(* flannel annotation.                                                     *)
(***************************************************************************)
TaintKeys(taints) == {t.key : t \in taints}

Departing(taints) == \A k \in DELETION_TAINTS : k \in TaintKeys(taints)

AddressOf(obj) ==
    LET ext == {i \in 1..Len(obj.addresses) : obj.addresses[i].type = "ExternalIP"}
    IN IF ext = {} THEN obj.flannel
       ELSE obj.addresses[CHOOSE i \in ext : \A j \in ext : i <= j].address

\* the records of a hostname and the IPs they carry
IPsOf(hostname) == {r.content : r \in {q \in records : q.name = hostname}}

\* the hostnames of the enabled services of the cluster
IntendedHostnames == {c.hostname : c \in SeqToSet(ConfigsOf(services))}

\* the sweep is past its node listing, which succeeded
Listed == spc \notin {"idle", "nodes"} /\ ~sw.aborted

\* the sweep has done its work and nothing failed nor interfered with it
CleanSweepDone ==
    /\ spc = "report"
    /\ ~sw.aborted
    /\ ~sg.failed
    /\ ~sg.interfered

\* C1: when a sweep none of whose calls failed has done its deletions and
\* creations, while the callback deleted nothing and the services did not
\* change, the records of the hostname of every enabled service carry
\* exactly the IPs the sweep found valid
InvC1 ==
    (CleanSweepDone /\ ~sg.intents_changed) =>
        \A h \in IntendedHostnames : IPsOf(h) = sw.healthy_ips

\* a clean sweep that deleted a stale record and created a missing one
WitC1 ==
    /\ CleanSweepDone
    /\ ~sg.intents_changed
    /\ sg.dels > 0
    /\ sg.posts # {}
    /\ IntendedHostnames # {}

\* C2: the provider never holds two A records of one (hostname, IP): the
\* controller never creates a record for a pair that has one
InvC2 ==
    \A r1 \in records : \A r2 \in records :
        (r1.name = r2.name /\ r1.content = r2.content) => r1.id = r2.id

\* the second sweep has created a record beside records that exist
WitC2 ==
    /\ sweeps = 2
    /\ sg.posts # {}
    /\ \E r1 \in records : \E r2 \in records :
         r1.name = r2.name /\ r1.content # r2.content

\* C3: a node the client has read is Departing (its deletion_taints are not
\* empty) exactly when every configured taint key is among its taints, and
\* then its deletion_taints are its taints of those keys
InvC3 ==
    \A n \in DOMAIN node_cache :
        LET info == node_cache[n]
        IN /\ (info.deletion_taints # {}) <=> Departing(info.taints)
           /\ Departing(info.taints) =>
                info.deletion_taints = {t \in info.taints : t.key \in DELETION_TAINTS}

\* a node with one of the two taint keys was read, and is not Departing
WitC3 ==
    \E n \in DOMAIN node_cache :
        /\ Cardinality(TaintKeys(node_cache[n].taints) \cap DELETION_TAINTS) = 1
        /\ node_cache[n].deletion_taints = {}

\* the valid IPs of the cluster as it is
ValidIPs ==
    {AddressOf(nodes[n]) :
        n \in {m \in DOMAIN nodes :
                 AddressOf(nodes[m]) # NoIP /\ ~Departing(nodes[m].taints)}}

\* C4: the valid IPs of a sweep are the non-empty external IPs of the listed
\* nodes that are not Departing, whatever their readiness
InvC4 == Listed => sw.healthy_ips = ValidIPs

\* a listing with a node that is not ready and valid, and one that is
\* Departing and whose IP is not valid
WitC4 ==
    /\ Listed
    /\ \E n \in DOMAIN nodes :
         nodes[n].ready # "True" /\ AddressOf(nodes[n]) \in sw.healthy_ips
    /\ \E n \in DOMAIN nodes :
         /\ Departing(nodes[n].taints)
         /\ AddressOf(nodes[n]) # NoIP
         /\ AddressOf(nodes[n]) \notin sw.healthy_ips


\* a step of the watch worker that reads the event at the head of the stream
ReadsEvent == wpc = "idle" /\ queue # << >> /\ queue' = Tail(queue)

\* what the node cache holds of the node of the event at the head
CachedDeparting(name) ==
    name \in DOMAIN node_cache /\ node_cache[name].deletion_taints # {}

CachedNotDeparting(name) ==
    name \in DOMAIN node_cache /\ node_cache[name].deletion_taints = {}

\* the three cases in which the callback is invoked
CallbackCase(event) ==
    \/ event.type = "ADDED" /\ Departing(event.object.taints)
    \/ /\ event.type = "MODIFIED"
       /\ Departing(event.object.taints)
       /\ CachedNotDeparting(event.object.name)
    \/ event.type = "DELETED" /\ CachedDeparting(event.object.name)

\* C5: the watch worker invokes the callback for an event exactly when the
\* event is Added with a Departing node, Modified with a Departing node
\* whose cached state was not Departing, or Deleted with a node whose cached
\* state was Departing
PropC5 ==
    [][ReadsEvent => ((wpc' = "callback") <=> CallbackCase(Head(queue)))]_vars

\* the callback was invoked for a Modified event
WitC5 == wpc = "callback" /\ wh.type = "MODIFIED"

\* a step of the callback that calls delete_dns_record
CallbackDeletes == wpc = "h_del" /\ wh' # wh

\* the callback has gone through its configurations
CallbackDone == wpc = "h_record" /\ wh.type = "MODIFIED"

\* C6: the callback of a Modified event of a Departing node deletes, for
\* each service configuration, records of that hostname and of the node's
\* IP only, then appends one event; when none of its calls failed and the
\* sweep changed no record meanwhile, no record of a configured hostname
\* carries the node's IP
PropC6 ==
    [][ /\ CallbackDeletes =>
            /\ records' \subseteq records
            /\ \A r \in records \ records' :
                 /\ r.content = wh.node.external_ip
                 /\ r.name = wh.configs[wh.idx].hostname
        /\ (CallbackDone /\ wpc' = "idle") =>
            /\ wh.idx = Len(wh.configs)
            /\ events' = Append(events, events'[Len(events')])
            /\ events'[Len(events')].node_ip = wh.node.external_ip
            /\ (~hg.failed /\ ~hg.interfered) =>
                 \A i \in 1..Len(wh.configs) :
                    wh.node.external_ip \notin IPsOf(wh.configs[i].hostname)
      ]_vars

\* the callback of a Modified event has deleted a record, all its calls
\* went well, and a record of another IP is left
WitC6 ==
    /\ CallbackDone
    /\ ~hg.failed
    /\ ~hg.interfered
    /\ wh.deleted_records > 0
    /\ \E r \in records : r.content # wh.node.external_ip

\* C7: a clean sweep that follows a clean sweep, with no change of the
\* cluster and no deletion by the callback since that one began, calls
\* neither create_dns_record nor delete_dns_record
InvC7 ==
    (CleanSweepDone /\ ~sg.changed /\ sg.cleanRuns >= 1) =>
        sg.posts = {} /\ sg.dels = 0

\* the second of two such sweeps is done, with records to keep in place
WitC7 ==
    /\ CleanSweepDone
    /\ ~sg.changed
    /\ sg.cleanRuns >= 1
    /\ sw.healthy_ips # {}
    /\ \A h \in IntendedHostnames : IPsOf(h) # {}

\* a step of the sweep that calls delete_dns_record
SweepDeletes == spc = "sync_del" /\ sw' # sw

\* C8: within a sweep no delete_dns_record for a hostname is called once
\* create_dns_record was called for that hostname
PropC8 ==
    [][SweepDeletes =>
         sw.configs[sw.idx].hostname \notin {p[1] : p \in sg.posts}]_vars

\* the sweep is about to create a record for a hostname it deleted a record
\* of
WitC8 ==
    /\ spc = "create_post"
    /\ sw.configs[sw.idx].hostname \in DOMAIN sw.sync_results
    /\ sw.sync_results[sw.configs[sw.idx].hostname].records_deleted > 0

\* C9: a sweep never creates a record for an IP whose records the callback
\* has withdrawn while the sweep ran
PropC9 ==
    [][\A r \in records' \ records : r.content \notin sg.withdrawn]_vars

\* C10: a sweep whose node listing failed calls neither create_dns_record
\* nor delete_dns_record, and its report has one error and zero counters
InvC10 ==
    sg.list_failed =>
        /\ sg.posts = {} /\ sg.dels = 0
        /\ (spc = "idle") =>
              LET report == sync_reports[Len(sync_reports)]
              IN /\ report.errors = 1
                 /\ report.nodes_checked = 0
                 /\ report.nodes_with_deletion_taints = 0
                 /\ report.services_checked = 0
                 /\ report.dns_configs_found = 0
                 /\ report.dns_records_found = 0
                 /\ report.dns_records_created = 0
                 /\ report.dns_records_deleted = 0

\* such a sweep has returned, and the provider holds stale records
WitC10 ==
    /\ sg.list_failed
    /\ spc = "idle"
    /\ \E r \in records : r.content = "ip3"


\* the sweep has done its work with the configurations of the services as
\* they are, and the callback deleted nothing meanwhile
SweepDone ==
    /\ spc = "report"
    /\ ~sw.aborted
    /\ ~sg.refresh_failed
    /\ ~sg.interfered
    /\ ~sg.intents_changed

\* C11: when the calls for the hostname of one service raise, the sweep
\* still converges the hostname of every other enabled service none of
\* whose calls raised: its records carry exactly the valid IPs
InvC11 ==
    SweepDone =>
        \A h \in IntendedHostnames \ sg.failed_hosts : IPsOf(h) = sw.healthy_ips

\* every call for the first hostname raised, and the sweep deleted a record
\* of the second hostname and created one
WitC11 ==
    /\ SweepDone
    /\ sg.failed_hosts = {"h1.example.com"}
    /\ NoZoneFor("h1.example.com")
    /\ sg.deleted > 0
    /\ \E p \in sg.posts : p[1] = "h2.acme.io"
    /\ IPsOf("h2.acme.io") = sw.healthy_ips


\* the report of the last sweep, which has returned
LastReport == sync_reports[Len(sync_reports)]

\* C12: the report of a sweep whose node listing succeeded counts the nodes
\* listed, the records the sweep created and deleted, and has no error when
\* no call of the sweep raised
InvC12 ==
    (spc = "idle" /\ sweeps > 0 /\ ~sg.list_failed) =>
        /\ LastReport.nodes_checked = sg.listed
        /\ LastReport.dns_records_created = sg.created
        /\ LastReport.dns_records_deleted = sg.deleted
        /\ ~sg.failed => LastReport.errors = 0

\* an event was appended to the log
Appended == events' # events

\* C13: the event log never holds more than 1000 events; an append to a
\* log of 1000 events drops the oldest and keeps the others in order, the
\* new event last
PropC13 ==
    [][Appended =>
         LET event == events'[Len(events')]
         IN /\ Len(events') <= EventCap
            /\ event.timestamp = TimeAfter(events)
            /\ events' = IF Len(events) = EventCap
                         THEN Append(Tail(events), event)
                         ELSE Append(events, event)]_vars

\* an event was appended to a log of 1000 events
WitC13 ==
    /\ Len(events) = EventCap
    /\ events[1].timestamp = 2
    /\ events[EventCap].timestamp = EventCap + 1

\* C14: the report log never holds more than 100 reports
InvC14 == Len(sync_reports) <= ReportCap

\* C15: at most one sweep executes at a time: a run of the job starts only
\* when no instance of it is executing, and a firing of the timer during a
\* sweep is skipped: it starts nothing and changes nothing of the sweep
PropC15 ==
    [][/\ sweeps' # sweeps => (~SweepBusy /\ sweeps' = sweeps + 1)
       /\ skipped' # skipped =>
             (SweepBusy /\ UNCHANGED <<sweepVars, mgrVars, records, cfVars, sg>>)]_vars

\* a firing was skipped during the first sweep, and the second sweep runs
WitC15 == skipped = 1 /\ sweeps = 2 /\ SweepBusy

\* C18: neither the sweep nor the handler lets a failure out: the job ends
\* idle with one report for each run, the worker goes back to the stream
InvC18 ==
    /\ spc # "raised"
    /\ wpc # "raised"
    /\ spc = "idle" => Len(sync_reports) = sweeps

\* a sweep that failed has ended, and a handler that failed has ended
WitC18 ==
    /\ spc = "idle" /\ sweeps > 0 /\ sync_reports[Len(sync_reports)].errors > 0
    /\ wpc = "idle" /\ hg.failed /\ events # << >>

\* the places of the suffixes of hostname that are keys of cache
SuffixKeys(hostname, cache) ==
    {i \in 1..Len(Split(hostname)) :
        Join(SubSeq(Split(hostname), i, Len(Split(hostname)))) \in DOMAIN cache}

\* the zone id of the longest suffix of hostname that is a key of cache
LongestSuffixZone(hostname, cache) ==
    IF SuffixKeys(hostname, cache) = {} THEN NoZone
    ELSE LET i == CHOOSE j \in SuffixKeys(hostname, cache) :
                     \A k \in SuffixKeys(hostname, cache) : j <= k
         IN cache[Join(SubSeq(Split(hostname), i, Len(Split(hostname))))]

\* C16: a call of resolveZone returns the zone id of the longest suffix of
\* the hostname that is a key of the zone cache it runs with, NotFound when
\* no suffix is a key
InvC16 ==
    call.name = "_get_zone_for_hostname" =>
        call.zone_id = LongestSuffixZone(call.hostname, call.zones_cache)

\* C17: every hostname of the hostname cache maps to the id that the
\* resolution computes from the current zone cache
InvC17 ==
    \A hostname \in DOMAIN hostname_to_zone :
        hostname_to_zone[hostname] = ZoneOfSuffix(Split(hostname), 1, zones_cache)

\* C19: the overall status is healthy when both checks report healthy,
\* degraded when both APIs are reached and a check is unhealthy, unhealthy
\* otherwise
PropC19 ==
    [][health'.timestamp # health.timestamp =>
         LET reached == "k8s_api" \notin faults /\ "cf_zones" \notin faults
             healthy == /\ health'.kubernetes_status.status = "healthy"
                        /\ health'.cloudflare_status.status = "healthy"
         IN health'.status = IF healthy THEN "healthy"
                             ELSE IF reached THEN "degraded"
                             ELSE "unhealthy"]_vars

\* C20: a permanent failure of a provider call is surfaced after a single
\* attempt: once an attempt has failed for good the call has raised, and
\* it was the first attempt
InvC20 ==
    (call.name \in RetriedCalls /\ call.failure.permanent) =>
        (call.pc = "raised" /\ call.attempt_number = 1)

\* the handler of a Deleted event has gone through its configurations
DeletedDone == wpc = "h_record" /\ wh.type = "DELETED"

\* C22: the handler of a Deleted event of a node with an external IP,
\* Departing or not, goes through every service configuration, deleting
\* records of that hostname and of the node's IP only, then appends one
\* event; a hostname whose calls failed does not keep the records of the
\* other hostnames: none of them carries the node's IP afterwards
PropC22 ==
    [][ /\ (/\ wpc = "callback" /\ wpc' # wpc
            /\ wh.type = "DELETED" /\ wh.node.external_ip # NoIP) =>
            /\ wpc' \in {"h_list", "h_record"}
            /\ ~RefreshFails => wh'.configs = ConfigsOf(services)
        /\ (CallbackDeletes /\ wh.type = "DELETED") =>
            /\ records' \subseteq records
            /\ \A r \in records \ records' :
                 /\ r.content = wh.node.external_ip
                 /\ r.name = wh.configs[wh.idx].hostname
        /\ (DeletedDone /\ wpc' = "idle") =>
            /\ wh.idx >= Len(wh.configs)
            /\ events' = Append(events, events'[Len(events')])
            /\ events'[Len(events')].event_type = "node_deleted"
            /\ events'[Len(events')].node_ip = wh.node.external_ip
            /\ \A i \in 1..Len(wh.configs) :
                 wh.configs[i].hostname \notin hg.failed_hosts =>
                    wh.node.external_ip \notin IPsOf(wh.configs[i].hostname)
      ]_vars

\* the handler of a Deleted event of a node without deletion taints is
\* done: the calls for one hostname failed, a record of another is deleted
WitC22 ==
    /\ DeletedDone
    /\ wh.node.deletion_taints = {}
    /\ hg.failed_hosts # {}
    /\ wh.deleted_records > 0

\* C23: the handler of an Added event of a Departing node with an external
\* IP creates no record and appends one event
PropC23 ==
    [][(/\ wpc = "callback" /\ wpc' = "idle"
        /\ wh.type = "ADDED"
        /\ wh.node.external_ip # NoIP
        /\ Departing(wh.node.taints)) =>
            /\ records' = records
            /\ Len(events') = Len(events) + 1]_vars

\* C24: the handler of an Added event of a node with an external IP and
\* without the deletion taints changes no record of the provider, and
\* appends one node_added event when it returns
PropC24 ==
    [][(/\ wpc # wpc' \/ wh # wh'
        /\ wh.type = "ADDED"
        /\ wh.node.external_ip # NoIP
        /\ ~Departing(wh.node.taints)) =>
            /\ records' = records
            /\ wpc' = "idle" =>
                 /\ events' = Append(events, events'[Len(events')])
                 /\ events'[Len(events')].event_type = "node_added"]_vars

\* C25: the handler of an event of a node without an external IP calls the
\* provider for nothing and appends one event
PropC25 ==
    [][(/\ wpc = "callback" /\ wpc' # wpc
        /\ wh.node.external_ip = NoIP) =>
            /\ wpc' = "idle"
            /\ records' = records
            /\ hostname_to_zone' = hostname_to_zone
            /\ Len(events') = Len(events) + 1]_vars

\* C21: a sweep that starts after the handler of a Deleted event has
\* removed the records of the node's IP, none of which was created again
\* since, calls delete_dns_record for no record of that IP
PropC21 ==
    [][SweepDeletes =>
         <<Head(sw.todel).name, Head(sw.todel).content>> \notin sg.cleared_before]_vars

\* such a sweep has done its deletions and creations, after a handler that
\* deleted records
WitC21 ==
    /\ spc = "report"
    /\ ~sw.aborted
    /\ ~sg.failed
    /\ sg.cleared_before # {}
    /\ \E i \in 1..Len(events) :
         events[i].event_type = "node_deleted" /\ events[i].records_deleted > 0

\* C26: when a sweep whose node listing succeeded has ended, last_sync_time
\* (which the health snapshot gives as last_sync) is set, to the timestamp
\* of the newest report
InvC26 ==
    (spc = "idle" /\ sweeps > 0 /\ ~sg.list_failed) =>
        /\ last_sync_time # 0
        /\ last_sync_time = LastReport.timestamp

\* the sweep is in one of its two loops over the service configurations
SweepInLoop == spc \in {"sync", "sync_del", "create", "create_chk", "create_post"}

\* C27: the configurations a sweep works on are those it has read from the
\* cluster when it started, none when that listing failed: never the ones
\* an earlier sweep, the start of the controller or a handler has read
InvC27 == SweepInLoop => sw.configs = sg.read_configs

\* the hostnames of the enabled services of the cluster whose ttl
\* annotation is an integer or absent
WellFormedHostnames ==
    {services[i].hostname :
        i \in {j \in 1..Len(services) :
                  ConfigWanted(services[j]) /\ TtlOf(services[j]) # -1}}

\* C28: when a service of the cluster carries a ttl annotation that is not
\* an integer, a sweep during which the services did not change, no call
\* for a hostname failed and the handler deleted nothing still brings the
\* records of every well-formed enabled service to the valid IPs
InvC28 ==
    (/\ spc = "report"
     /\ ~sw.aborted
     /\ ConfigsRaise(services)
     /\ ~sg.intents_changed
     /\ ~sg.interfered
     /\ sg.failed_hosts = {}) =>
        \A h \in WellFormedHostnames : IPsOf(h) = sw.healthy_ips

\* C29: a sweep whose node listing succeeded deletes no record of a hostname
\* no zone of the account is a suffix of and posts no record for it, its
\* report names that hostname in an error, and the records of every other
\* enabled service none of whose calls raised carry the valid IPs
PropC29 ==
    [][/\ SweepDeletes => ~NoZoneFor(Head(sw.todel).name)
       /\ (spc = "create_post" /\ spc' # spc) =>
              ~NoZoneFor(sw.configs[sw.idx].hostname)
       /\ (spc = "report" /\ spc' = "idle" /\ ~sw.aborted) =>
              /\ \A i \in 1..Len(sw.configs) :
                     NoZoneFor(sw.configs[i].hostname) =>
                         /\ sw.configs[i].hostname \in
                                sync_reports'[Len(sync_reports')].error_hostnames
                         /\ \A p \in sg.posts : p[1] # sw.configs[i].hostname
              /\ (~sg.refresh_failed /\ ~sg.interfered /\ ~sg.intents_changed) =>
                     \A h \in IntendedHostnames \ sg.failed_hosts :
                         IPsOf(h) = sw.healthy_ips]_vars

\* C30: a client whose construction has returned holds at least one zone
\* in its zone cache: the construction raises when the account exposes no
\* zone
InvC30 == ClientConstructed => DOMAIN zones_cache # {}

\* C31: a call of get_dns_records, create_dns_record, delete_dns_record or
\* get_all_nodes makes at most 3 attempts: an attempt that succeeds is the
\* last and the call returns, a failed attempt is followed by another one
\* until the third, after which the call raises what that attempt raised;
\* the body of a composite method is entered once
PropC31 ==
    [][(call.name \in RetriedCalls /\ call.pc = "attempt" /\ call' # call) =>
         LET failure == AttemptFailure(call.name, call.hostname, call.record_id)
         IN /\ call'.attempt_number = call.attempt_number + 1
            /\ call'.attempt_number <= 3
            /\ call'.runs = 1
            /\ call'.pc = IF failure.exception = "" THEN "returned"
                          ELSE IF call'.attempt_number < 3 THEN "attempt"
                          ELSE "raised"
            /\ call'.failure = failure]_vars

\* the get_dns_records of sync_dns_records_for_hostname has raised at its
\* third attempt, the provider failing for the time being
WitC31 ==
    /\ call.name = "get_dns_records"
    /\ call.within = "sync_dns_records_for_hostname"
    /\ call.pc = "raised"
    /\ call.attempt_number = 3
    /\ ~call.failure.permanent

\* C32: when a sweep none of whose calls failed has done its work, while
\* the callback deleted nothing and the services did not change, every
\* record of the hostname of an enabled service and of a valid IP carries
\* the ttl and proxied of that service
InvC32 ==
    (CleanSweepDone /\ ~sg.intents_changed) =>
        \A c \in SeqToSet(ConfigsOf(services)) :
            \A r \in records :
                (r.name = c.hostname /\ r.content \in sw.healthy_ips) =>
                    (r.ttl = c.ttl /\ r.proxied = c.proxied)

\* C33: the watch worker invokes no callback and changes no record when it
\* reads the Modified event of a node that is not Departing; when a sweep
\* none of whose calls failed has done its work, while the cluster and the
\* services did not change and the callback deleted nothing, the hostname
\* of every enabled service has a record of the IP of every node that left
\* Departing and kept its IP
PropC33 ==
    [][/\ (ReadsEvent /\ Head(queue).type = "MODIFIED"
             /\ ~Departing(Head(queue).object.taints)) =>
              (wpc' = "idle" /\ records' = records)
       /\ (CleanSweepDone /\ ~sg.changed /\ ~sg.intents_changed) =>
              \A n \in sg.returned :
                  AddressOf(nodes[n]) # NoIP =>
                      \A h \in IntendedHostnames : AddressOf(nodes[n]) \in IPsOf(h)]_vars

\* node n2 left Departing, the watch worker has read its events, and a
\* sweep that started afterwards has created the record of its IP
WitC33 ==
    /\ CleanSweepDone
    /\ ~sg.changed
    /\ ~sg.intents_changed
    /\ sg.returned = {"n2"}
    /\ queue = << >>
    /\ wpc = "idle"
    /\ <<"h1.example.com", "ip2">> \in sg.posts
    /\ "ip2" \in IPsOf("h1.example.com")

\* C34: the watch worker invokes the callback when it reads the Modified
\* event of a Departing node whose previous event showed it as not
\* Departing, whatever a sweep or a health check did meanwhile
PropC34 ==
    [][(/\ ReadsEvent
        /\ Head(queue).type = "MODIFIED"
        /\ Departing(Head(queue).object.taints)
        /\ Head(queue).object.name \in DOMAIN hg.seen
        /\ ~hg.seen[Head(queue).object.name]) => wpc' = "callback"]_vars

\* C35: the scheduler is shut down only once the watch was stopped; the
\* shutdown returns, and the process exits, only when no job is running;
\* and no sweep starts after that
PropC35 ==
    [][/\ (scheduler = "running" /\ scheduler' = "stopped") => ~watch_active
       /\ (main # "exit" /\ main' = "exit") => (~SweepBusy /\ scheduler = "stopped")
       /\ sweeps' # sweeps => main # "exit"]_vars

\* the shutdown of the scheduler waits for a sweep that is about to write
\* its report, the watch being stopped
WitC35 ==
    /\ main = "wait"
    /\ scheduler = "stopped"
    /\ ~watch_active
    /\ spc = "report"
    /\ sg.created > 0

\* C36: the watch worker starts a callback only while the flag is set; a
\* thread returns only when the flag is not set, so the end or the failure
\* of a stream while it is set leads to another stream; and once the flag
\* is not set every thread returns, unless the flag is set again
PropC36 ==
    /\ [][/\ (wpc = "idle" /\ wpc' = "callback") => watch_active
          /\ \A i \in 1..Len(watch_threads) :
                (watch_threads[i] # "done" /\ watch_threads'[i] = "done") =>
                    ~watch_active
          /\ \A i \in 1..Len(watch_threads) :
                (watch_threads[i] = "while" /\ watch_threads'[i] # "while"
                    /\ watch_active) => watch_threads'[i] = "stream"]_vars
    /\ (~watch_active) ~> (watch_active \/ LiveThreads = {})

\* stop_watching was called, the one thread has found the flag not set when
\* an event arrived, and has returned
WitC36 ==
    /\ ~watch_active
    /\ watch_threads = <<"done">>
    /\ hg.seen # << >>

\* C40: at most one thread of _watch_nodes has not returned
InvC40 == Cardinality(LiveThreads) <= 1

\* the records of the hostname of every enabled service carry exactly the
\* external IPs of the nodes that are not Departing
Converged == \A h \in IntendedHostnames : IPsOf(h) = ValidIPs

\* C37: when from some point on no call fails (the cluster stops changing in
\* every behaviour), the provider reaches the converged state and stays in
\* it, whatever events and sweeps came before
PropC37 == (<>[](faults = {})) => <>[]Converged

\* converged after a change of a node and a callback, the last sweep having
\* created a record
WitC37 ==
    /\ Converged
    /\ spc = "idle"
    /\ sweeps = MaxSweeps
    /\ envChanges > 0
    /\ events # << >>
    /\ sg.created > 0
    /\ ValidIPs # {}

\* the hostnames of the service configurations the controller holds
HeldHostnames ==
    {service_configs_cache[i].hostname : i \in 1..Len(service_configs_cache)}

\* C38: every record a step creates or deletes has the hostname of a
\* service configuration the controller holds at that step
PropC38 ==
    [][\A r \in (records \ records') \cup (records' \ records) :
          r.name \in HeldHostnames]_vars


\* the hostnames of the configurations the sweep works with
SweepHostnames == {sw.configs[i].hostname : i \in 1..Len(sw.configs)}

\* C39: a sweep whose node listing succeeded and found no node to advertise
\* creates no record, and when none of its calls failed, no callback
\* interfered and the services did not change while it ran, no record of
\* any hostname of its configurations is left, whatever IP the record
\* carried
InvC39 ==
    (Listed /\ sw.healthy_ips = {}) =>
        /\ sg.posts = {}
        /\ sg.created = 0
        /\ (CleanSweepDone /\ ~sg.intents_changed) =>
              \A h \in SweepHostnames : IPsOf(h) = {}

\* a sweep that listed no node at all has deleted a record: a record of an
\* IP of no node of the cluster
WitC39 ==
    /\ CleanSweepDone
    /\ ~sg.intents_changed
    /\ sw.healthy_ips = {}
    /\ sg.listed = 0
    /\ sg.deleted > 0
    /\ SweepHostnames # {}

=============================================================================
